---- MODULE Spec2Model ----
(***************************************************************************)
(* Model of intervals.py: the settings store (load_settings /              *)
(* save_settings), the IntervalsClient (fetch_today_activity,              *)
(* fetch_today_stats, _parse_stats) and the TrayApp with its refresh       *)
(* thread.                                                                 *)
(*                                                                         *)
(* A Python str is a sequence of one-character strings, so that            *)
(* formatting, escaping and parsing are computed character by character.   *)
(* A JSON value is a tagged record:                                        *)
(*   [t |-> "null"], [t |-> "bool", b], [t |-> "int", neg, mag],           *)
(*   [t |-> "float", k, neg, q, b], [t |-> "str", s], [t |-> "arr", a],    *)
(*   [t |-> "obj", keys, o]                                                *)
(* where o is a function from keys (strs) to JSON values.  An int has any  *)
(* size and a float is an IEEE 754 double, as in Python: mag and q are     *)
(* natural numbers of any size.                                            *)
(***************************************************************************)
EXTENDS Integers, Sequences, FiniteSets, TLC

VARIABLES
    file,        \* settings.json on disk: [exists, readable, text]
    perm,        \* what the process may do with settings.json: [writable, created, limit]
    file0,       \* settings driver: the file the driver started from
    saveArgs,    \* settings driver: the (username, password, athlete_id) to save
    loaded,      \* settings driver: result of the last load_settings call
    sPc,         \* settings driver: "start", "saved", "save_failed" ("idle": unused)
    wResp,       \* client driver: the outcome of the wellness request
    eResp,       \* client driver: the outcome of the events request
    actResult,   \* client driver: what fetch_today_activity returned
    statsResult, \* client driver: what fetch_today_stats returned
    today,       \* app: what date.today() returns
    client,      \* app: the IntervalsClient [username, password, athlete_id, base_url]
    uiPc,        \* app: where the UI thread is: "idle", inside a handler, or "exited"
    fields,      \* app: the text fields of the settings window
    settingsShown, \* app: the settings window is shown
    statsWindow, \* app: the stats window [shown, label]
    schedPc,     \* app: where the refresh thread is: "loop", "fetching", "sleep", "dead", "exited"
    sleepLeft,   \* app: seconds left of the refresh thread's time.sleep
    fetch,       \* app: per thread, the fetch_today_stats call in progress
    tooltip,     \* app: the tooltip of the tray icon
    saves,       \* app: how many times Save was pressed
    lastWrite,   \* app: how the file write of the last completed save ended ("none": no save yet)
    credPairs    \* app: every (username, password) that was loaded or entered in a save

settingsVars == <<file0, saveArgs, loaded, sPc>>
clientVars == <<wResp, eResp, actResult, statsResult>>
appVars == <<today, client, uiPc, fields, settingsShown, statsWindow, schedPc, sleepLeft,
             fetch, tooltip, saves, lastWrite, credPairs>>
vars == <<file, perm, settingsVars, clientVars, appVars>>

----------------------------------------------------------------------------
(* Bounds *)

MaxFieldLen == 1
MaxEvents == 2
MaxSaves == 1
TimeStep == 600

----------------------------------------------------------------------------
(* Natural numbers of any size: the limbs of the number in base 1000, the  *)
(* least significant first, the last one not 0; <<>> is zero.              *)

At(a, i) == IF 1 <= i /\ i <= Len(a) THEN a[i] ELSE 0

\* The sequence s, with its elements worked out once.
Fixed(s) == SubSeq(s, 1, Len(s))

\* a without its leading zero limbs.
Trim(a) ==
    SubSeq(a, 1, CHOOSE i \in 0..Len(a) :
                    (i = 0 \/ a[i] # 0) /\ \A j \in (i + 1)..Len(a) : a[j] = 0)

\* The number whose limbs, before any carry, are s, each at most 1998.
Ripple(s) ==
    LET Carried(gen) ==
            LET carry(i) == \E j \in gen : j < i /\ \A k \in (j + 1)..(i - 1) : s[k] = 999
            IN  Trim(Fixed([i \in 1..(Len(s) + 1) |-> (At(s, i) + (IF carry(i) THEN 1 ELSE 0)) % 1000]))
    IN  Carried({j \in 1..Len(s) : s[j] >= 1000})

\* The number whose limbs, before any carry, are c, each below 2^31.
Norm(c) ==
    IF c = <<>> THEN <<>> ELSE
    LET Low(s1) == Ripple(Fixed([i \in 1..(Len(s1) + 1) |->
                                    (At(s1, i) % 1000) + (At(s1, i - 1) \div 1000)]))
    IN  Low(Fixed([i \in 1..(Len(c) + 3) |->
                      (At(c, i) % 1000) + ((At(c, i - 1) \div 1000) % 1000)
                      + ((At(c, i - 2) \div 1000000) % 1000)
                      + (At(c, i - 3) \div 1000000000)]))

BigOf(n) == Norm(<<n>>)

Add(a, b) ==
    IF b = <<>> THEN a ELSE IF a = <<>> THEN b ELSE
    Ripple(Fixed([i \in 1..(IF Len(a) > Len(b) THEN Len(a) ELSE Len(b)) |-> At(a, i) + At(b, i)]))

\* a - b, for a >= b.
Sub(a, b) ==
    IF b = <<>> THEN a ELSE
    LET Borrowed(d) ==
            LET Lent(short) ==
                    LET borrow(i) == \E j \in short : j < i /\ \A k \in (j + 1)..(i - 1) : d[k] = 0
                    IN  Trim(Fixed([i \in 1..Len(a) |->
                                       (d[i] - (IF borrow(i) THEN 1 ELSE 0) + 1000) % 1000]))
            IN  Lent({j \in 1..Len(a) : d[j] < 0})
    IN  Borrowed(Fixed([i \in 1..Len(a) |-> a[i] - At(b, i)]))

Less(a, b) ==
    \/ Len(a) < Len(b)
    \/ /\ Len(a) = Len(b)
       /\ \E i \in 1..Len(a) : a[i] < b[i] /\ \A j \in (i + 1)..Len(a) : a[j] = b[j]

\* a * m, for m at most 2000000.
MulSmall(a, m) == IF a = <<>> \/ m = 0 THEN <<>> ELSE Norm(Fixed([i \in 1..Len(a) |-> a[i] * m]))

RECURSIVE Dot(_, _, _, _, _)
Dot(a, b, i, lo, hi) ==
    IF lo > hi THEN 0
    ELSE IF lo = hi THEN a[lo] * b[i + 1 - lo]
    ELSE Dot(a, b, i, lo, (lo + hi) \div 2) + Dot(a, b, i, (lo + hi) \div 2 + 1, hi)

Mul(a, b) ==
    IF a = <<>> \/ b = <<>> THEN <<>>
    ELSE Norm(Fixed([i \in 1..(Len(a) + Len(b) - 1) |->
                        Dot(a, b, i, IF i + 1 - Len(b) > 1 THEN i + 1 - Len(b) ELSE 1,
                            IF i < Len(a) THEN i ELSE Len(a))]))

\* x^k for a small x.
RECURSIVE PowBig(_, _)
PowBig(x, k) ==
    IF k = 0 THEN <<1>>
    ELSE LET Square(h) == IF h = <<1>> THEN <<x>>
                          ELSE IF k % 2 = 1 THEN MulSmall(Mul(h, h), x) ELSE Mul(h, h)
         IN  Square(PowBig(x, k \div 2))

\* a * 10^k
ShiftDec(a, k) ==
    IF a = <<>> THEN <<>>
    ELSE [i \in 1..(k \div 3) |-> 0]
         \o MulSmall(a, CASE k % 3 = 0 -> 1 [] k % 3 = 1 -> 10 [] k % 3 = 2 -> 100)

\* The number written with the decimal digits ds, and the decimal digits of
\* a number (<<>> for zero).
FromDigits(ds) ==
    LET n == Len(ds)
        D(k) == IF k >= 1 THEN ds[k] ELSE 0
    IN  Trim([i \in 1..((n + 2) \div 3) |->
                 D(n - 3 * i + 3) + 10 * D(n - 3 * i + 2) + 100 * D(n - 3 * i + 1)])

NumDigits(a) ==
    IF a = <<>> THEN 0
    ELSE 3 * (Len(a) - 1)
         + (IF a[Len(a)] >= 100 THEN 3 ELSE IF a[Len(a)] >= 10 THEN 2 ELSE 1)

ToDigits(a) ==
    LET total == NumDigits(a)
        DigitAt(r) == (a[r \div 3 + 1] \div (CASE r % 3 = 0 -> 1 [] r % 3 = 1 -> 10 [] r % 3 = 2 -> 100)) % 10
    IN  [p \in 1..total |-> DigitAt(total - p)]

\* The largest d in 0..9 with d * t <= r.
QuotDigit(r, t) == Cardinality({d \in 1..9 : ~Less(r, MulSmall(t, d))})

\* The quotient and the remainder of r by m * 10^lo, for r < m * 10^(hi + 1):
\* the quotient as its hi - lo + 1 decimal digits.
RECURSIVE LongDiv(_, _, _, _)
LongDiv(r, m, hi, lo) ==
    IF r = <<>> THEN [q |-> [i \in 1..(hi - lo + 1) |-> 0], r |-> r]
    ELSE IF hi = lo
    THEN LET Take(t, d) == [q |-> <<d>>, r |-> IF d = 0 THEN r ELSE Sub(r, MulSmall(t, d))]
             Step(t) == IF Less(r, t) THEN [q |-> <<0>>, r |-> r] ELSE Take(t, QuotDigit(r, t))
         IN  Step(ShiftDec(m, lo))
    ELSE LET Low(a) == LET Join(c) == [q |-> a.q \o c.q, r |-> c.r]
                       IN  Join(LongDiv(a.r, m, (hi + lo) \div 2, lo))
         IN  Low(LongDiv(r, m, hi, (hi + lo) \div 2 + 1))

\* The quotient and the remainder of n by m, for n < m * 10^p.
DivMod(n, m, p) ==
    IF m = <<1>> THEN [q |-> n, r |-> <<>>] ELSE
    LET Made(d) == [q |-> FromDigits(d.q), r |-> d.r]
    IN  Made(LongDiv(n, m, p - 1, 0))

\* The number a, below 10^9, as an integer of the model.
Small(a) == At(a, 1) + 1000 * At(a, 2) + 1000000 * At(a, 3)

----------------------------------------------------------------------------
(* JSON values *)

JNull == [t |-> "null"]
JBool(b) == [t |-> "bool", b |-> b]
\* An int is its sign and its size; 0 has no sign.
Integer(neg, mag) == [t |-> "int", neg |-> neg /\ mag # <<>>, mag |-> mag]
JInt(n) == Integer(n < 0, BigOf(IF n < 0 THEN 0 - n ELSE n))
IntNeg(x) == Integer(~x.neg, x.mag)
IntAdd(x, y) ==
    IF x.neg = y.neg THEN Integer(x.neg, Add(x.mag, y.mag))
    ELSE IF Less(x.mag, y.mag) THEN Integer(y.neg, Sub(y.mag, x.mag))
    ELSE Integer(x.neg, Sub(x.mag, y.mag))
JStr(s) == [t |-> "str", s |-> s]
JArr(a) == [t |-> "arr", a |-> a]

\* A finite float is q * 2^b, sign apart, as IEEE 754 binary64 has it:
\* 2^52 <= q < 2^53 and -1074 <= b <= 971, or q < 2^52 and b = -1074 (a
\* subnormal), or q = 0 and b = 0.
Double(neg, q, b) == [t |-> "float", k |-> "finite", neg |-> neg, q |-> q, b |-> b]
Infinity(neg) == [t |-> "float", k |-> "inf", neg |-> neg, q |-> <<>>, b |-> 0]
NaN == [t |-> "float", k |-> "nan", neg |-> FALSE, q |-> <<>>, b |-> 0]
Zero(neg) == Double(neg, <<>>, 0)

Two52 == <<496, 370, 627, 599, 503, 4>>
Two53 == <<992, 740, 254, 199, 7, 9>>

Odd(a) == At(a, 1) % 2 = 1

\* A dict: its keys in insertion order and the value of each key.
Dict(keys, o) == [t |-> "obj", keys |-> keys, o |-> o]

\* The empty dict.
EmptyDict == Dict(<<>>, [k \in {} |-> JNull])

\* d[key] = value: a new key goes last, a key already there keeps its place.
DictSet(d, key, value) ==
    Dict(IF key \in DOMAIN d.o THEN d.keys ELSE Append(d.keys, key),
         [k \in DOMAIN d.o \cup {key} |-> IF k = key THEN value ELSE d.o[k]])

\* The dict of the map o with its keys in the order they have in `order`.
JObjIn(order, o) == Dict(SelectSeq(order, LAMBDA k : k \in DOMAIN o), o)

\* Python truthiness of a JSON value (bool(x)).
Truthy(v) ==
    CASE v.t = "null" -> FALSE
      [] v.t = "bool" -> v.b
      [] v.t = "int" -> v.mag # <<>>
      [] v.t = "float" -> v.k # "finite" \/ v.q # <<>>
      [] v.t = "str" -> Len(v.s) > 0
      [] v.t = "arr" -> Len(v.a) > 0
      [] v.t = "obj" -> Len(v.keys) > 0

\* Python `x or d`.
PyOr(x, d) == IF Truthy(x) THEN x ELSE d

\* dict.get(key, default); only defined on a dict.
DictGet(obj, key, default) == IF key \in DOMAIN obj.o THEN obj.o[key] ELSE default

----------------------------------------------------------------------------
(* String constants of the program, character by character *)

K_username == <<"u", "s", "e", "r", "n", "a", "m", "e">>
K_password == <<"p", "a", "s", "s", "w", "o", "r", "d">>
K_athlete_id == <<"a", "t", "h", "l", "e", "t", "e", "_", "i", "d">>
S_API_KEY == <<"A", "P", "I", "_", "K", "E", "Y">>
S_Empty == <<>>
S_Zero == <<"0">>

----------------------------------------------------------------------------
(* json.dump / json.load on text *)

\* The characters with code points 1 to 127: AsciiChars[n] is chr(n).  The
\* characters below the space and the last one are control characters.  A
\* string of a module cannot hold chr(96) alone, and AsciiChars[96] stands
\* for it.
AsciiChars ==
    <<
      "", "", "", "", "", "", "", "",
      "\t", "\n", "", "\f", "\r", "", "", "",
      "", "", "", "", "", "", "", "",
      "", "", "", "", "", "", "", " ",
      "!", "\"", "#", "$", "%", "&", "'", "(",
      ")", "*", "+", ",", "-", ".", "/", "0",
      "1", "2", "3", "4", "5", "6", "7", "8",
      "9", ":", ";", "<", "=", ">", "?", "@",
      "A", "B", "C", "D", "E", "F", "G", "H",
      "I", "J", "K", "L", "M", "N", "O", "P",
      "Q", "R", "S", "T", "U", "V", "W", "X",
      "Y", "Z", "[", "\\", "]", "^", "_", "`'",
      "a", "b", "c", "d", "e", "f", "g", "h",
      "i", "j", "k", "l", "m", "n", "o", "p",
      "q", "r", "s", "t", "u", "v", "w", "x",
      "y", "z", "{", "|", "}", "~", ""
    >>

\* The characters above 127 that the model's alphabet has, with their code
\* points.
OtherChars == {<<"é", 233>>, <<"€", 8364>>}

ControlChars == {AsciiChars[n] : n \in 1..31}
PrintableAscii == {AsciiChars[n] : n \in 32..126}

\* ord(c) and chr(n) on the alphabet.
Ord(c) ==
    IF \E n \in 1..127 : AsciiChars[n] = c
    THEN CHOOSE n \in 1..127 : AsciiChars[n] = c
    ELSE (CHOOSE p \in OtherChars : p[1] = c)[2]
Chr(n) ==
    IF n \in 1..127 THEN AsciiChars[n] ELSE (CHOOSE p \in OtherChars : p[2] = n)[1]

HexDigits ==
    <<"0", "1", "2", "3", "4", "5", "6", "7", "8", "9", "a", "b", "c", "d", "e", "f">>
UpperHexDigits == <<"A", "B", "C", "D", "E", "F">>

\* '{0:04x}'.format(n)
Hex4(n) ==
    <<HexDigits[((n \div 4096) % 16) + 1], HexDigits[((n \div 256) % 16) + 1],
      HexDigits[((n \div 16) % 16) + 1], HexDigits[(n % 16) + 1]>>

\* Mutant of EscapeChar: a quote inside a str is written unescaped.
EscapeChar_QuoteUnescaped(c) ==
    CASE c = "\\" -> <<"\\", "\\">>
      [] c = "\n" -> <<"\\", "n">>
      [] c = "\r" -> <<"\\", "r">>
      [] c = "\t" -> <<"\\", "t">>
      [] c = "\f" -> <<"\\", "f">>
      [] c = AsciiChars[8] -> <<"\\", "b">>
      [] c \in PrintableAscii -> <<c>>
      [] OTHER -> <<"\\", "u">> \o Hex4(Ord(c))

\* What the JSON encoder writes for one character of a str (ensure_ascii):
\* the quote, the backslash and everything outside the printable ASCII
\* characters are escaped.
EscapeChar(c) ==
    CASE c = "\"" -> <<"\\", "\"">>
      [] c = "\\" -> <<"\\", "\\">>
      [] c = "\n" -> <<"\\", "n">>
      [] c = "\r" -> <<"\\", "r">>
      [] c = "\t" -> <<"\\", "t">>
      [] c = "\f" -> <<"\\", "f">>
      [] c = AsciiChars[8] -> <<"\\", "b">>
      [] c \in PrintableAscii -> <<c>>
      [] OTHER -> <<"\\", "u">> \o Hex4(Ord(c))

RECURSIVE EscapeAll(_)
EscapeAll(s) == IF s = <<>> THEN <<>> ELSE EscapeChar(Head(s)) \o EscapeAll(Tail(s))

\* The JSON text of a str.
EncodeStr(s) == <<"\"">> \o EscapeAll(s) \o <<"\"">>

\* The character an escape sequence \c stands for, in a JSON string literal.
UnescapeDomain == {"\"", "\\", "/", "b", "f", "n", "r", "t"}
UnescapeChar(c) ==
    CASE c = "n" -> "\n"
      [] c = "r" -> "\r"
      [] c = "t" -> "\t"
      [] c = "f" -> "\f"
      [] c = "b" -> AsciiChars[8]
      [] OTHER -> c

ParseFail == [ok |-> FALSE, val |-> JNull, pos |-> 0]
ParseOk(v, next) == [ok |-> TRUE, val |-> v, pos |-> next]

IsWs(c) == c \in {" ", "\n", "\r", "\t"}
IsDigit(c) == c \in {"0", "1", "2", "3", "4", "5", "6", "7", "8", "9"}
DigitVal(c) ==
    CASE c = "0" -> 0 [] c = "1" -> 1 [] c = "2" -> 2 [] c = "3" -> 3 [] c = "4" -> 4
      [] c = "5" -> 5 [] c = "6" -> 6 [] c = "7" -> 7 [] c = "8" -> 8 [] c = "9" -> 9

IsHexDigit(c) ==
    \/ \E d \in 1..16 : HexDigits[d] = c
    \/ \E d \in 1..6 : UpperHexDigits[d] = c
HexVal(c) ==
    IF \E d \in 1..16 : HexDigits[d] = c
    THEN (CHOOSE d \in 1..16 : HexDigits[d] = c) - 1
    ELSE (CHOOSE d \in 1..6 : UpperHexDigits[d] = c) + 9

\* The four hexadecimal digits of a \u escape from position i on.
ScanHex4(s, i) ==
    IF i + 3 <= Len(s) /\ \A j \in i..(i + 3) : IsHexDigit(s[j])
    THEN [ok |-> TRUE,
          n |-> 4096 * HexVal(s[i]) + 256 * HexVal(s[i + 1])
                + 16 * HexVal(s[i + 2]) + HexVal(s[i + 3])]
    ELSE [ok |-> FALSE, n |-> 0]

RECURSIVE SkipWs(_, _)
SkipWs(s, i) == IF i <= Len(s) /\ IsWs(s[i]) THEN SkipWs(s, i + 1) ELSE i

\* The string literal whose opening quote is just before position i (the
\* decoder is strict: a control character inside the literal is an error).
RECURSIVE ScanString(_, _, _)
ScanString(s, i, acc) ==
    IF i > Len(s) THEN ParseFail
    ELSE IF s[i] = "\"" THEN ParseOk(JStr(acc), i + 1)
    ELSE IF s[i] = "\\" THEN
        IF i + 1 > Len(s) THEN ParseFail
        ELSE IF s[i + 1] = "u" THEN
            LET u == ScanHex4(s, i + 2) IN
            IF u.ok THEN ScanString(s, i + 6, Append(acc, Chr(u.n))) ELSE ParseFail
        ELSE IF s[i + 1] \in UnescapeDomain
        THEN ScanString(s, i + 2, Append(acc, UnescapeChar(s[i + 1])))
        ELSE ParseFail
    ELSE IF s[i] \in ControlChars THEN ParseFail
    ELSE ScanString(s, i + 1, Append(acc, s[i]))

\* The position after the digits from position i on.
DigitsEnd(s, i) ==
    CHOOSE k \in i..(Len(s) + 1) :
        (k > Len(s) \/ ~IsDigit(s[k])) /\ \A j \in i..(k - 1) : IsDigit(s[j])

\* The values of the digits s[i..j], none when j < i.
DigitValues(s, i, j) == [k \in 1..(IF j < i THEN 0 ELSE j - i + 1) |-> DigitVal(s[i + k - 1])]

\* The digits ds without the zeros they start with.
StripZeros(ds) ==
    SubSeq(ds, CHOOSE k \in 1..(Len(ds) + 1) :
                   (k > Len(ds) \/ ds[k] # 0) /\ \A j \in 1..(k - 1) : ds[j] = 0,
           Len(ds))

\* The exponent written with the digits ds, in a literal of `len`
\* characters.  The literal has fewer than `len` digits, so that an exponent
\* of len + 400 or more puts its value above every float, or below every
\* float but zero, whatever the digits are: len + 400 gives the same float as
\* any larger exponent and stands for all of them.
ExponentOf(sig, most) ==
    IF Len(sig) > 9 THEN most
    ELSE IF Small(FromDigits(sig)) > most THEN most ELSE Small(FromDigits(sig))
Exponent(ds, len) == ExponentOf(StripZeros(ds), len + 400)

\* The float nearest to (qq + f) * 2^x, ties to the even q, where qq has
\* from 54 to 70 bits and f, in [0, 1), is 0 unless `sticky`: qq is cut to
\* q = qq / 2^(b - x), which d holds with its remainder; `half` is half of
\* the divisor.
BitLength(qq) == CHOOSE l \in 54..70 : Less(qq, PowBig(2, l)) /\ ~Less(qq, PowBig(2, l - 1))
MadeDouble(neg, q, b) ==
    IF q = Two53 THEN (IF b = 971 THEN Infinity(neg) ELSE Double(neg, Two52, b + 1))
    ELSE IF q = <<>> THEN Zero(neg)
    ELSE Double(neg, q, b)
RoundsUp(d, half, sticky) ==
    d.r # <<>> /\ (Less(half, d.r) \/ (d.r = half /\ (sticky \/ Odd(d.q))))
PickDouble(neg, d, half, sticky, b) ==
    MadeDouble(neg, IF RoundsUp(d, half, sticky) THEN Add(d.q, <<1>>) ELSE d.q, b)
PlaceDouble(neg, qq, sticky, x, b) ==
    IF b > 971 THEN Infinity(neg)
    ELSE PickDouble(neg, DivMod(qq, PowBig(2, b - x), 21), PowBig(2, b - x - 1), sticky, b)
SizeDouble(neg, qq, sticky, x, len) ==
    PlaceDouble(neg, qq, sticky, x, IF x + len - 53 < 0 - 1074 THEN 0 - 1074 ELSE x + len - 53)
RoundToDouble(neg, qq, sticky, x) ==
    IF qq = <<>> THEN Zero(neg) ELSE SizeDouble(neg, qq, sticky, x, BitLength(qq))

\* The float nearest to (n / m) * 2^e2, for n, m > 0: the ratio is taken to
\* 61 bits or so by a power of two, 2^s.
RoundRatio(neg, d, x) == RoundToDouble(neg, d.q, d.r # <<>>, x)
ScaleRatio(neg, n, m, e2, s) ==
    RoundRatio(neg, DivMod(IF s >= 0 THEN Mul(n, PowBig(2, s)) ELSE n,
                           IF s >= 0 THEN m ELSE Mul(m, PowBig(2, 0 - s)), 21),
               e2 - s)
DoubleOfRatio(neg, n, m, e2) ==
    IF n = <<>> THEN Zero(neg)
    ELSE ScaleRatio(neg, n, m, e2, 61 - ((33219 * (NumDigits(n) - NumDigits(m))) \div 10000))

\* The float nearest to ds * 10^e, where ds are decimal digits, the first
\* not 0 (<<>> for zero): what float() makes of a literal.
DoubleOfDecimal(neg, ds, e) ==
    IF ds = <<>> THEN Zero(neg)
    ELSE IF Len(ds) + e > 309 THEN Infinity(neg)
    ELSE IF Len(ds) + e < 0 - 323 THEN Zero(neg)
    ELSE DoubleOfRatio(neg, IF e >= 0 THEN Mul(FromDigits(ds), PowBig(5, e)) ELSE FromDigits(ds),
                       IF e >= 0 THEN <<1>> ELSE PowBig(5, 0 - e), e)

\* The float of m thousandths.
JFloat(neg, m) == DoubleOfDecimal(neg, ToDigits(BigOf(m)), 0 - 3)

\* The number literal at position i: NUMBER_RE of the decoder,
\* (-?(?:0|[1-9]\d*))(\.\d+)?([eE][-+]?\d+)?.  A literal with a fraction or an
\* exponent is a float, float() of its text; any other is an int, int() of
\* its text, which is a ValueError beyond 4300 digits.
NumberValue(s, neg, j, intEnd, fracEnd, expStart, expEnd) ==
    IF fracEnd = intEnd /\ expEnd = fracEnd
    THEN IF intEnd - j > 4300 THEN ParseFail
         ELSE ParseOk(Integer(neg, FromDigits(DigitValues(s, j, intEnd - 1))), intEnd)
    ELSE ParseOk(DoubleOfDecimal(neg,
                                 StripZeros(DigitValues(s, j, intEnd - 1)
                                            \o DigitValues(s, intEnd + 1, fracEnd - 1)),
                                 (IF expEnd = fracEnd THEN 0
                                  ELSE IF s[expStart - 1] = "-"
                                  THEN 0 - Exponent(DigitValues(s, expStart, expEnd - 1), Len(s))
                                  ELSE Exponent(DigitValues(s, expStart, expEnd - 1), Len(s)))
                                 - (IF fracEnd = intEnd THEN 0 ELSE fracEnd - intEnd - 1)),
                 expEnd)
NumberExponent(s, neg, j, intEnd, fracEnd, expStart) ==
    NumberValue(s, neg, j, intEnd, fracEnd, expStart,
                IF fracEnd <= Len(s) /\ s[fracEnd] \in {"e", "E"}
                   /\ expStart <= Len(s) /\ IsDigit(s[expStart])
                THEN DigitsEnd(s, expStart) ELSE fracEnd)
NumberFraction(s, neg, j, intEnd, fracEnd) ==
    NumberExponent(s, neg, j, intEnd, fracEnd,
                   IF fracEnd + 1 <= Len(s) /\ s[fracEnd + 1] \in {"-", "+"}
                   THEN fracEnd + 2 ELSE fracEnd + 1)
NumberInteger(s, neg, j, intEnd) ==
    NumberFraction(s, neg, j, intEnd,
                   IF intEnd + 1 <= Len(s) /\ s[intEnd] = "." /\ IsDigit(s[intEnd + 1])
                   THEN DigitsEnd(s, intEnd + 1) ELSE intEnd)
ScanSigned(s, neg, j) ==
    IF j > Len(s) \/ ~IsDigit(s[j]) THEN ParseFail
    ELSE NumberInteger(s, neg, j, IF s[j] = "0" THEN j + 1 ELSE DigitsEnd(s, j))
ScanNumber(s, i) == ScanSigned(s, s[i] = "-", IF s[i] = "-" THEN i + 1 ELSE i)

HasWordAt(s, i, w) == i + Len(w) - 1 <= Len(s) /\ SubSeq(s, i, i + Len(w) - 1) = w

W_null == <<"n", "u", "l", "l">>
W_true == <<"t", "r", "u", "e">>
W_false == <<"f", "a", "l", "s", "e">>
W_NaN == <<"N", "a", "N">>
W_Infinity == <<"I", "n", "f", "i", "n", "i", "t", "y">>

RECURSIVE ParseValue(_, _), ParseElements(_, _, _), ParseMembers(_, _, _)

\* One JSON value starting at or after position i0.
ParseValue(s, i0) ==
    LET i == SkipWs(s, i0) IN
    IF i > Len(s) THEN ParseFail
    ELSE IF s[i] = "\"" THEN ScanString(s, i + 1, <<>>)
    ELSE IF s[i] = "{" THEN
        LET j == SkipWs(s, i + 1) IN
        IF j <= Len(s) /\ s[j] = "}" THEN ParseOk(EmptyDict, j + 1)
        ELSE ParseMembers(s, j, EmptyDict)
    ELSE IF s[i] = "[" THEN
        LET j == SkipWs(s, i + 1) IN
        IF j <= Len(s) /\ s[j] = "]" THEN ParseOk(JArr(<<>>), j + 1)
        ELSE ParseElements(s, j, <<>>)
    ELSE IF HasWordAt(s, i, W_null) THEN ParseOk(JNull, i + 4)
    ELSE IF HasWordAt(s, i, W_true) THEN ParseOk(JBool(TRUE), i + 4)
    ELSE IF HasWordAt(s, i, W_false) THEN ParseOk(JBool(FALSE), i + 5)
    ELSE IF HasWordAt(s, i, W_NaN) THEN ParseOk(NaN, i + 3)
    ELSE IF HasWordAt(s, i, W_Infinity) THEN ParseOk(Infinity(FALSE), i + 8)
    ELSE IF s[i] = "-" /\ HasWordAt(s, i + 1, W_Infinity) THEN ParseOk(Infinity(TRUE), i + 9)
    ELSE IF s[i] = "-" \/ IsDigit(s[i]) THEN ScanNumber(s, i)
    ELSE ParseFail

\* The elements of an array from position i on, up to the closing bracket.
ParseElements(s, i, acc) ==
    LET e == ParseValue(s, i) IN
    IF ~e.ok THEN ParseFail
    ELSE LET j == SkipWs(s, e.pos) IN
         IF j > Len(s) THEN ParseFail
         ELSE IF s[j] = "]" THEN ParseOk(JArr(Append(acc, e.val)), j + 1)
         ELSE IF s[j] = "," THEN ParseElements(s, j + 1, Append(acc, e.val))
         ELSE ParseFail

\* The members of an object from position i on, up to the closing brace; a
\* repeated key keeps its first place and its last value.
ParseMembers(s, i, acc) ==
    LET k0 == SkipWs(s, i) IN
    IF k0 > Len(s) \/ s[k0] # "\"" THEN ParseFail
    ELSE LET k == ScanString(s, k0 + 1, <<>>) IN
         IF ~k.ok THEN ParseFail
         ELSE LET c == SkipWs(s, k.pos) IN
              IF c > Len(s) \/ s[c] # ":" THEN ParseFail
              ELSE LET v == ParseValue(s, c + 1) IN
                   IF ~v.ok THEN ParseFail
                   ELSE LET j == SkipWs(s, v.pos)
                            d == DictSet(acc, k.val.s, v.val)
                        IN  IF j > Len(s) THEN ParseFail
                            ELSE IF s[j] = "}" THEN ParseOk(d, j + 1)
                            ELSE IF s[j] = "," THEN ParseMembers(s, j + 1, d)
                            ELSE ParseFail

\* json.load: the value of a whole text; raised when the text is not one JSON
\* value followed by nothing but white space.
JsonLoad(text) ==
    LET Whole(r) == IF r.ok /\ SkipWs(text, r.pos) > Len(text)
                    THEN [raised |-> FALSE, val |-> r.val]
                    ELSE [raised |-> TRUE, val |-> JNull]
    IN  Whole(ParseValue(text, 1))

----------------------------------------------------------------------------
(* load_settings / save_settings *)

NoFile == [exists |-> FALSE, readable |-> FALSE, text |-> <<>>]
FileWith(text) == [exists |-> TRUE, readable |-> TRUE, text |-> text]
Unreadable(text) == [exists |-> TRUE, readable |-> FALSE, text |-> text]

Settings(u, p, a) == [username |-> u, password |-> p, athlete_id |-> a]

defaults == Settings(JStr(S_API_KEY), JStr(S_Empty), JStr(S_Zero))

\* The dict built at lines 22-26 from the parsed object `saved`.
SettingsFrom(saved) ==
    Settings(PyOr(DictGet(saved, K_username, defaults.username), defaults.username),
             DictGet(saved, K_password, defaults.password),
             PyOr(DictGet(saved, K_athlete_id, defaults.athlete_id), defaults.athlete_id))

\* load_settings(): a missing file, an open() that fails, a json.load that
\* raises and a .get on something that is not a dict all end in the defaults.
load_settings(f) ==
    IF ~f.exists THEN defaults
    ELSE IF ~f.readable THEN defaults
    ELSE LET Built(saved) == IF saved.raised THEN defaults
                             ELSE IF saved.val.t # "obj" THEN defaults
                             ELSE SettingsFrom(saved.val)
         IN  Built(JsonLoad(f.text))

\* The text json.dump writes for the dict of save_settings.
DumpSettings(u, p, a) ==
    <<"{">> \o EncodeStr(K_username) \o <<":", " ">> \o EncodeStr(u) \o <<",", " ">>
           \o EncodeStr(K_password) \o <<":", " ">> \o EncodeStr(p) \o <<",", " ">>
           \o EncodeStr(K_athlete_id) \o <<":", " ">> \o EncodeStr(a) \o <<"}">>

\* What the process is allowed to do with settings.json, beside the file
\* itself:
\*   writable: open(SETTINGS_FILE, "w") is permitted, by the mode of the file
\*             or, when there is none, by the mode of its directory;
\*   created:  the owner's read and write permission on a file the process
\*             creates, which gets mode 0666 & ~umask;
\*   limit:    <<>> when the file may grow to any size, <<n>> when a write
\*             that takes it beyond n characters raises (RLIMIT_FSIZE, a
\*             full disk) after the first n characters reached the file.
Permissions(writable, created, limit) ==
    [writable |-> writable, created |-> created, limit |-> limit]
Mode(r, w) == [readable |-> r, writable |-> w]
Unrestricted == Permissions(TRUE, Mode(TRUE, TRUE), <<>>)

\* How many characters of `text` reach the file.
Written(pm, text) ==
    IF pm.limit # <<>> /\ pm.limit[1] < Len(text) THEN pm.limit[1] ELSE Len(text)

\* Nothing raises inside save_settings.
WriteSucceeds(pm, text) == pm.writable /\ Written(pm, text) = Len(text)

\* Line 33, open(SETTINGS_FILE, "w") when it does not raise: the file is
\* there and empty; a file that was there keeps its mode.
OpenForWrite(f, pm) ==
    [exists |-> TRUE, readable |-> IF f.exists THEN f.readable ELSE pm.created.readable,
     text |-> <<>>]

\* The permissions after that open: a file just created has the mode the
\* umask left it.
AfterOpen(f, pm) ==
    IF f.exists THEN pm ELSE [pm EXCEPT !.writable = pm.created.writable]

\* Lines 34-38 and the close of the file: the text, or the part of it that
\* fits, is in the file.
WriteText(f, pm, text) == [f EXCEPT !.text = SubSeq(text, 1, Written(pm, text))]

\* save_settings(): the file after the call; every exception is swallowed.
save_settings(f, pm, u, p, a) ==
    IF ~pm.writable THEN f
    ELSE WriteText(OpenForWrite(f, pm), pm, DumpSettings(u, p, a))

----------------------------------------------------------------------------
(* str() / repr() / int() / round() of Python values *)

DigitChar(d) ==
    CASE d = 0 -> "0" [] d = 1 -> "1" [] d = 2 -> "2" [] d = 3 -> "3" [] d = 4 -> "4"
      [] d = 5 -> "5" [] d = 6 -> "6" [] d = 7 -> "7" [] d = 8 -> "8" [] d = 9 -> "9"

RECURSIVE NatToStr(_)
NatToStr(n) ==
    IF n < 10 THEN <<DigitChar(n)>> ELSE Append(NatToStr(n \div 10), DigitChar(n % 10))

\* The characters of the decimal digits ds.
DigitChars(ds) == [i \in 1..Len(ds) |-> DigitChar(ds[i])]

\* The result of a call: a value, or an exception raised.
Ret(v) == [raised |-> FALSE, val |-> v]
Raised == [raised |-> TRUE, val |-> JNull]

\* A str that was made without an exception.
Text(s) == Ret(JStr(s))

\* The parts of an f-string, or of the repr of a container, put together:
\* the exception of a part that raises, else the texts one after the other.
RECURSIVE JoinTexts(_, _)
JoinTexts(parts, i) ==
    IF i > Len(parts) THEN <<>> ELSE parts[i].val.s \o JoinTexts(parts, i + 1)
Joined(parts) ==
    IF \E i \in 1..Len(parts) : parts[i].raised THEN Raised
    ELSE Text(JoinTexts(parts, 1))

\* str(n) of an int: a ValueError when n has more than 4300 digits.
IntToStr(v) ==
    IF NumDigits(v.mag) > 4300 THEN Raised
    ELSE IF v.mag = <<>> THEN Text(<<"0">>)
    ELSE Text((IF v.neg THEN <<"-">> ELSE <<>>) \o DigitChars(ToDigits(v.mag)))

Zeros(k) == [i \in 1..k |-> "0"]

S_inf == <<"i", "n", "f">>
S_nan == <<"n", "a", "n">>

\* floor(a / 10^j) and ceil(a / 10^j)
FloorDivPow10(a, j) ==
    LET s == j \div 3
        d == CASE j % 3 = 0 -> 1 [] j % 3 = 1 -> 10 [] j % 3 = 2 -> 100
    IN  IF Len(a) <= s THEN <<>>
        ELSE Trim([i \in 1..(Len(a) - s) |->
                      (At(a, i + s) \div d) + ((At(a, i + s + 1) % d) * (1000 \div d))])
CeilOf(a, j, f) == IF ShiftDec(f, j) = a THEN f ELSE Add(f, <<1>>)
CeilDivPow10(a, j) == CeilOf(a, j, FloorDivPow10(a, j))

\* The shortest decimal that float() reads back as q * 2^b, and of those
\* the nearest to it: its digits ds and the place p of the decimal point,
\* the value being 0.ds * 10^p.  The float is w / den, the values half way
\* to its neighbours are (w - hl) / den and (w + hu) / den, and all three
\* are taken to 19 or 20 digits before the point by a power of ten, e0:
\* the float is then c.q + c.r / dn and the decimals that read back as it
\* are the whole numbers from loC to hiF.  The shortest of them end in j
\* zeros, and kf and kf + 1 are the two of those around the float.
DecimalOf(k, p) == [ds |-> ToDigits(k), p |-> NumDigits(k) + p]
Feasible(loC, hiF, j) == ~Less(FloorDivPow10(hiF, j), CeilDivPow10(loC, j))
NearerAbove(c, dn, j, kf, low, halfj) ==
    IF Less(kf, CeilDivPow10(c.lo, j)) THEN TRUE
    ELSE IF Less(FloorDivPow10(c.hi, j), Add(kf, <<1>>)) THEN FALSE
    ELSE IF j = 0
    THEN Less(dn, MulSmall(c.r, 2)) \/ (MulSmall(c.r, 2) = dn /\ Odd(kf))
    ELSE \/ Less(halfj, low)
         \/ low = halfj /\ (c.r # <<>> \/ Odd(kf))
NearestDecimal(c, dn, j, e0, kf) ==
    DecimalOf(IF NearerAbove(c, dn, j, kf, Sub(c.q, ShiftDec(kf, j)),
                             IF j = 0 THEN <<>> ELSE ShiftDec(<<5>>, j - 1))
              THEN Add(kf, <<1>>) ELSE kf,
              j + e0)
DecimalAtPlace(c, dn, e0, j) == NearestDecimal(c, dn, j, e0, FloorDivPow10(c.q, j))
DecimalBetween(c, dn, e0) ==
    IF Less(c.hi, c.lo) THEN [ds |-> <<>>, p |-> 0]
    ELSE DecimalAtPlace(c, dn, e0,
                        CHOOSE i \in 0..20 : Feasible(c.lo, c.hi, i) /\ ~Feasible(c.lo, c.hi, i + 1))
DecimalEnds(q, c, lo, hi, dn, e0) ==
    DecimalBetween([q |-> c.q, r |-> c.r,
                    lo |-> IF lo.r = <<>> /\ ~Odd(q) THEN lo.q ELSE Add(lo.q, <<1>>),
                    hi |-> IF hi.r = <<>> /\ Odd(q) THEN Sub(hi.q, <<1>>) ELSE hi.q],
                   dn, e0)
DecimalDivided(q, sw, shl, shu, dn, e0) ==
    DecimalEnds(q, DivMod(sw, dn, 21), DivMod(Sub(sw, shl), dn, 21),
                DivMod(Add(sw, shu), dn, 21), dn, e0)
TimesPow10(a, e0) == IF e0 < 0 THEN ShiftDec(a, 0 - e0) ELSE a
DecimalPlaced(q, w, hl, hu, den, e0) ==
    DecimalDivided(q, TimesPow10(w, e0), TimesPow10(hl, e0), TimesPow10(hu, e0),
                   IF e0 < 0 THEN den ELSE ShiftDec(den, e0), e0)
DecimalScaled(q, w, hl, hu, den) ==
    DecimalPlaced(q, w, hl, hu, den, NumDigits(w) - NumDigits(den) - 18)
DecimalOfBinary(q, b, p2) ==
    DecimalScaled(q,
                  IF b >= 0 THEN Mul(MulSmall(q, 4), p2) ELSE MulSmall(q, 4),
                  IF b >= 0 THEN (IF q = Two52 THEN p2 ELSE MulSmall(p2, 2))
                  ELSE IF q = Two52 /\ b > 0 - 1074 THEN <<1>> ELSE <<2>>,
                  IF b >= 0 THEN MulSmall(p2, 2) ELSE <<2>>,
                  IF b >= 0 THEN <<4>> ELSE MulSmall(p2, 4))
ShortestDecimal(q, b) == DecimalOfBinary(q, b, PowBig(2, IF b >= 0 THEN b ELSE 0 - b))

\* repr(x) of a finite float of digits ds with the decimal point after the
\* first p of them: positional when -4 < p <= 16, with an exponent otherwise.
FloatDigitsToStr(ds, p) ==
    LET n == Len(ds)
        x == p - 1
    IN  IF 0 - 4 < p /\ p <= 16
        THEN IF p <= 0 THEN <<"0", ".">> \o Zeros(0 - p) \o ds
             ELSE IF p < n THEN SubSeq(ds, 1, p) \o <<".">> \o SubSeq(ds, p + 1, n)
             ELSE ds \o Zeros(p - n) \o <<".", "0">>
        ELSE <<ds[1]>> \o (IF n > 1 THEN <<".">> \o SubSeq(ds, 2, n) ELSE <<>>)
             \o <<"e", IF x < 0 THEN "-" ELSE "+">>
             \o (LET a == NatToStr(IF x < 0 THEN 0 - x ELSE x)
                 IN  IF Len(a) < 2 THEN <<"0">> \o a ELSE a)

\* str(x) of a float.
FloatToStr(v) ==
    (IF v.neg THEN <<"-">> ELSE <<>>)
    \o (CASE v.k = "nan" -> S_nan
          [] v.k = "inf" -> S_inf
          [] v.k = "finite" /\ v.q = <<>> -> <<"0", ".", "0">>
          [] v.k = "finite" /\ v.q # <<>> ->
                LET Shown(d) == FloatDigitsToStr(DigitChars(d.ds), d.p)
                IN  Shown(ShortestDecimal(v.q, v.b)))

S_None == <<"N", "o", "n", "e">>
S_True == <<"T", "r", "u", "e">>
S_False == <<"F", "a", "l", "s", "e">>

\* The characters above 127 of the alphabet that str.isprintable() accepts.
PrintableOther == {"é", "€"}

\* '\\x%02x' or '\\u%04x' of a code point below 65536.
HexEscape(n) ==
    IF n < 256 THEN <<"\\", "x", HexDigits[((n \div 16) % 16) + 1], HexDigits[(n % 16) + 1]>>
    ELSE <<"\\", "u">> \o Hex4(n)

\* What repr() of a str writes for one character, inside the quotes q.
ReprChar(c, q) ==
    CASE c = q \/ c = "\\" -> <<"\\", c>>
      [] c = "\n" -> <<"\\", "n">>
      [] c = "\r" -> <<"\\", "r">>
      [] c = "\t" -> <<"\\", "t">>
      [] c # q /\ c # "\\" /\ c \in PrintableAscii \cup PrintableOther -> <<c>>
      [] OTHER -> HexEscape(Ord(c))

\* repr(s) of a str: in single quotes, unless it has a single quote and no
\* double quote.
StrRepr(s) ==
    LET has(c) == \E i \in 1..Len(s) : s[i] = c
        q == IF has("'") /\ ~has("\"") THEN "\"" ELSE "'"
        body[lo \in 1..(Len(s) + 1), hi \in 0..Len(s)] ==
            IF lo > hi THEN <<>>
            ELSE IF lo = hi THEN ReprChar(s[lo], q)
            ELSE LET mid == (lo + hi) \div 2
                 IN  body[lo, mid] \o body[mid + 1, hi]
    IN  <<q>> \o body[1, Len(s)] \o <<q>>

RECURSIVE PyStr(_), PyRepr(_), ReprItems(_, _), ReprMembers(_, _)

\* str(v), as an f-string formats a value: the ValueError of an int of more
\* than 4300 digits, wherever in v it is.
PyStr(v) ==
    CASE v.t = "str" -> Text(v.s)
      [] v.t = "null" -> Text(S_None)
      [] v.t = "bool" -> Text(IF v.b THEN S_True ELSE S_False)
      [] v.t = "int" -> IntToStr(v)
      [] v.t = "float" -> Text(FloatToStr(v))
      [] v.t = "arr" -> Joined(<<Text(<<"[">>), ReprItems(v.a, 1), Text(<<"]">>)>>)
      [] v.t = "obj" -> Joined(<<Text(<<"{">>), ReprMembers(v, 1), Text(<<"}">>)>>)

\* repr(v): as str(v), but a str is quoted.
PyRepr(v) == IF v.t = "str" THEN Text(StrRepr(v.s)) ELSE PyStr(v)

\* The items of a list from the i-th on, as str() of the list writes them.
ReprItems(a, i) ==
    IF i > Len(a) THEN Text(<<>>)
    ELSE Joined(<<Text(IF i > 1 THEN <<",", " ">> ELSE <<>>), PyRepr(a[i]),
                  ReprItems(a, i + 1)>>)

\* The members of a dict from the i-th on, as str() of the dict writes them.
ReprMembers(d, i) ==
    IF i > Len(d.keys) THEN Text(<<>>)
    ELSE Joined(<<Text((IF i > 1 THEN <<",", " ">> ELSE <<>>)
                       \o StrRepr(d.keys[i]) \o <<":", " ">>),
                  PyRepr(d.o[d.keys[i]]), ReprMembers(d, i + 1)>>)

\* The characters int() strips from both ends of a str.
PySpace == {" ", "\t", "\n", "\r", "\f", AsciiChars[11]}

\* The first position from i on, and the last up to j, that holds no white
\* space.
SkipSpace(s, i) ==
    CHOOSE k \in i..(Len(s) + 1) :
        (k > Len(s) \/ s[k] \notin PySpace) /\ \A m \in i..(k - 1) : s[m] \in PySpace
SkipSpaceBack(s, j) ==
    CHOOSE k \in 0..j :
        (k < 1 \/ s[k] \notin PySpace) /\ \A m \in (k + 1)..j : s[m] \in PySpace

\* The digits of s[i..j] read as digits with single underscores between
\* them; ok is FALSE when it is anything else.
AllDigitValues(t) == DigitValues(t, 1, Len(t))
ScanIntDigits(s, i, j) ==
    IF /\ i <= j
       /\ IsDigit(s[i])
       /\ IsDigit(s[j])
       /\ \A k \in i..j : IsDigit(s[k]) \/ (s[k] = "_" /\ s[k - 1] # "_")
    THEN [ok |-> TRUE, ds |-> AllDigitValues(SelectSeq(SubSeq(s, i, j), IsDigit))]
    ELSE [ok |-> FALSE, ds |-> <<>>]

\* int(s) of a str: white space around it is dropped, then an optional sign
\* and digits, with single underscores allowed between digits; anything
\* else, and more than 4300 digits, is a ValueError.
IntOfDigits(neg, d) ==
    IF ~d.ok \/ Len(d.ds) > 4300 THEN Raised ELSE Ret(Integer(neg, FromDigits(d.ds)))
IntBetween(s, i, j, signed) ==
    IntOfDigits(signed /\ s[i] = "-", ScanIntDigits(s, IF signed THEN i + 1 ELSE i, j))
IntStripped(s, i, j) == IntBetween(s, i, j, i <= j /\ s[i] \in {"-", "+"})
StrToInt(s) == IntStripped(s, SkipSpace(s, 1), SkipSpaceBack(s, Len(s)))

\* int(x): the whole part of q * 2^b.
WholePart(q, b) ==
    IF b >= 0 THEN Mul(q, PowBig(2, b))
    ELSE IF 0 - b > 53 THEN <<>>
    ELSE DivMod(q, PowBig(2, 0 - b), 17).q

\* int(x) of a float: truncation toward zero; an infinity is an
\* OverflowError and nan a ValueError.
FloatToInt(v) ==
    IF v.k # "finite" THEN Raised ELSE Ret(Integer(v.neg, WholePart(v.q, v.b)))

\* int(v): TypeError for None, list, dict.
PyInt(v) ==
    CASE v.t = "int" -> Ret(v)
      [] v.t = "bool" -> Ret(JInt(IF v.b THEN 1 ELSE 0))
      [] v.t = "float" -> FloatToInt(v)
      [] v.t = "str" -> StrToInt(v.s)
      [] OTHER -> Raised

\* round(x, 2): the float nearest to the hundredth nearest to q * 2^b, a
\* tie going to the even hundredth.  The float is (d.q + d.r / m) hundredths.
Hundredths(d, m) ==
    IF d.r # <<>> /\ (Less(m, MulSmall(d.r, 2)) \/ (MulSmall(d.r, 2) = m /\ Odd(d.q)))
    THEN Add(d.q, <<1>>)
    ELSE d.q
NearestHundredth(neg, q, m) ==
    DoubleOfDecimal(neg, ToDigits(Hundredths(DivMod(MulSmall(q, 100), m, 20), m)), 0 - 2)
RoundDouble(neg, q, b) ==
    IF b >= 0 THEN Double(neg, q, b)
    ELSE IF 0 - b > 62 THEN Zero(neg)
    ELSE NearestHundredth(neg, q, PowBig(2, 0 - b))

\* round(x, 2) of a float: nan and the infinities are kept.
RoundFloat(v) == IF v.k # "finite" THEN v ELSE RoundDouble(v.neg, v.q, v.b)

\* round(v, 2): an int stays an int, a float stays a float, TypeError for
\* str, None, list, dict.
PyRound2(v) ==
    CASE v.t = "int" -> Ret(v)
      [] v.t = "bool" -> Ret(JInt(IF v.b THEN 1 ELSE 0))
      [] v.t = "float" -> Ret(RoundFloat(v))
      [] OTHER -> Raised

----------------------------------------------------------------------------
(* IntervalsClient *)

K_name == <<"n", "a", "m", "e">>
K_ctl == <<"c", "t", "l">>
K_atl == <<"a", "t", "l">>
K_rampRate == <<"r", "a", "m", "p", "R", "a", "t", "e">>
K_restingHR == <<"r", "e", "s", "t", "i", "n", "g", "H", "R">>
K_hrv == <<"h", "r", "v">>
K_sleepScore == <<"s", "l", "e", "e", "p", "S", "c", "o", "r", "e">>
K_steps == <<"s", "t", "e", "p", "s">>
S_Rest == <<"R", "e", "s", "t">>
S_Failed == <<"F", "a", "i", "l", "e", "d", " ", "t", "o", " ", "f", "e", "t", "c", "h", " ", "d", "a", "t", "a">>
S_Today == <<"T", "o", "d", "a", "y", ":", " ">>
L_CTL == <<"C", "T", "L", ":", " ">>
L_ATL == <<"A", "T", "L", ":", " ">>
L_Form == <<"F", "o", "r", "m", ":", " ">>
L_Ramp == <<"R", "a", "m", "p", " ", "R", "a", "t", "e", ":", " ">>
L_HR == <<"R", "e", "s", "t", "i", "n", "g", " ", "H", "R", ":", " ">>
L_HRV == <<"H", "R", "V", ":", " ">>
L_Sleep == <<"S", "l", "e", "e", "p", " ", "S", "c", "o", "r", "e", ":", " ">>
L_Steps == <<"S", "t", "e", "p", "s", ":", " ">>
NL == <<"\n">>

\* What requests.get returns or raises: a timeout or a connection error
\* (both raised), or a response with a status and a body; the body is a JSON
\* value or is not JSON at all.
NotJson == [valid |-> FALSE, val |-> JNull]
Json(v) == [valid |-> TRUE, val |-> v]
TimedOut == [kind |-> "timeout", status |-> 0, body |-> NotJson]
ConnError == [kind |-> "conn_error", status |-> 0, body |-> NotJson]
Http(status, body) == [kind |-> "http", status |-> status, body |-> body]

\* requests.get raises before it sends anything: the basic-auth header is
\* made of the username and the password in latin-1, and a character that
\* latin-1 does not have is a UnicodeEncodeError.
EncodeError == [kind |-> "encode_error", status |-> 0, body |-> NotJson]
Latin1(s) == \A i \in 1..Len(s) : Ord(s[i]) <= 255
Encodable(auth) == Latin1(auth[1]) /\ Latin1(auth[2])

\* requests.get raises.
GetRaises(resp) == resp.kind # "http"

\* response.raise_for_status() raises: a 4xx or 5xx status.
RaisesForStatus(status) == 400 <= status /\ status < 600

\* The default of dict.get for a missing metric (the 0 of lines 77-84).
MetricDefault == JInt(0)

\* Mutant of Form: the loads are added.
Form_Sum(ctl, atl) == IntAdd(ctl, atl)

\* form = round(ctl - atl, 2), on ints.
Form(ctl, atl) == IntAdd(ctl, IntNeg(atl))

\* Mutant of StatsText: the HRV line comes before the Resting HR line.
StatsText_HrvFirst(ctl, atl, form, ramp, hr, hrv, sleep, steps) ==
    Joined(<<Text(L_CTL), PyStr(ctl), Text(NL),
             Text(L_ATL), PyStr(atl), Text(NL),
             Text(L_Form), PyStr(form), Text(NL),
             Text(L_Ramp), PyStr(ramp), Text(NL),
             Text(L_HRV), PyStr(hrv), Text(NL),
             Text(L_HR), PyStr(hr), Text(NL),
             Text(L_Sleep), PyStr(sleep), Text(NL),
             Text(L_Steps), PyStr(steps)>>)

\* The f-string of lines 85-94: the text, or the ValueError of str() of a
\* value of more than 4300 digits.
StatsText(ctl, atl, form, ramp, hr, hrv, sleep, steps) ==
    Joined(<<Text(L_CTL), PyStr(ctl), Text(NL),
             Text(L_ATL), PyStr(atl), Text(NL),
             Text(L_Form), PyStr(form), Text(NL),
             Text(L_Ramp), PyStr(ramp), Text(NL),
             Text(L_HR), PyStr(hr), Text(NL),
             Text(L_HRV), PyStr(hrv), Text(NL),
             Text(L_Sleep), PyStr(sleep), Text(NL),
             Text(L_Steps), PyStr(steps)>>)

\* _parse_stats(data): the stats text, or the exception of data.get on
\* something that is not a dict, of int() / round() on a bad value, or of
\* the f-string.
parse_stats(data) ==
    IF data.t # "obj" THEN Raised
    ELSE LET Rendered(ctl, atl, ramp, hr, hrv, sleep, steps) ==
                 IF \/ ctl.raised \/ atl.raised \/ ramp.raised \/ hr.raised
                    \/ hrv.raised \/ sleep.raised \/ steps.raised
                 THEN Raised
                 ELSE StatsText(ctl.val, atl.val, Form(ctl.val, atl.val),
                                ramp.val, hr.val, hrv.val, sleep.val, steps.val)
         IN  Rendered(PyInt(DictGet(data, K_ctl, MetricDefault)),
                      PyInt(DictGet(data, K_atl, MetricDefault)),
                      PyRound2(DictGet(data, K_rampRate, MetricDefault)),
                      PyInt(DictGet(data, K_restingHR, MetricDefault)),
                      PyInt(DictGet(data, K_hrv, MetricDefault)),
                      PyInt(DictGet(data, K_sleepScore, MetricDefault)),
                      PyInt(DictGet(data, K_steps, MetricDefault)))

\* data[0].get("name", "Rest") of line 57.
FirstName(first) == DictGet(first, K_name, JStr(S_Rest))

\* The try block of fetch_today_activity (lines 53-58) on the outcome of the
\* events request.
ActivityTry(resp) ==
    IF GetRaises(resp) THEN Raised
    ELSE IF RaisesForStatus(resp.status) THEN Raised
    ELSE IF ~resp.body.valid THEN Raised
    ELSE LET data == resp.body.val IN
         IF Truthy(data) /\ data.t = "arr" /\ Len(data.a) > 0
         THEN IF data.a[1].t = "obj" THEN Ret(FirstName(data.a[1])) ELSE Raised
         ELSE Ret(JStr(S_Rest))

\* The except clause of fetch_today_activity (lines 59-61).
ActivityExcept(r) == IF r.raised THEN Ret(JStr(S_Rest)) ELSE r

\* fetch_today_activity() on the outcome of its request.
fetch_today_activity(resp) == ActivityExcept(ActivityTry(resp))

\* Lines 67-69: the wellness request and _parse_stats of its body.
WellnessTry(resp) ==
    IF GetRaises(resp) THEN Raised
    ELSE IF RaisesForStatus(resp.status) THEN Raised
    ELSE IF ~resp.body.valid THEN Raised
    ELSE parse_stats(resp.body.val)

\* Line 71: f"Today: {activity}\n\n{stats}", or the exception of
\* str(activity).
Summary(activity, stats) ==
    Joined(<<Text(S_Today), PyStr(activity), Text(NL \o NL), Text(stats)>>)

\* Mutant of StatsExcept: the exception is let through.
StatsExcept_Reraise(r) == r

\* The except clause of fetch_today_stats (lines 72-74).
StatsExcept(r) == IF r.raised THEN Ret(JStr(S_Failed)) ELSE r

\* Lines 70-71 once the wellness part has given `stats`: the activity is
\* fetched (a second request, with outcome e) and the summary composed.
StatsWithActivity(stats, e) ==
    LET activity == fetch_today_activity(e) IN
    IF activity.raised THEN Raised ELSE Summary(activity.val, stats.s)

\* fetch_today_stats() on the outcomes of its two requests; the events
\* request is made only when the wellness part did not raise.
fetch_today_stats(w, e) ==
    LET stats == WellnessTry(w) IN
    StatsExcept(IF stats.raised THEN Raised ELSE StatsWithActivity(stats.val, e))

\* The result of a call that was not made yet, and of one that was.
NotCalled == [called |-> FALSE, raised |-> FALSE, val |-> JNull]
Called(r) == [called |-> TRUE, raised |-> r.raised, val |-> r.val]

----------------------------------------------------------------------------
(* URLs, requests and the state of the application *)

REFRESH_INTERVAL == 600
REQUEST_TIMEOUT == 10

S_Athlete == <<"h", "t", "t", "p", "s", ":", "/", "/", "i", "n", "t", "e", "r", "v", "a", "l", "s", ".", "i", "c", "u", "/", "a", "p", "i", "/", "v", "1", "/", "a", "t", "h", "l", "e", "t", "e", "/">>
S_Wellness == <<"/", "w", "e", "l", "l", "n", "e", "s", "s">>
S_Events == <<"/", "e", "v", "e", "n", "t", "s">>
S_Intervals == <<"I", "n", "t", "e", "r", "v", "a", "l", "s">>

\* n in decimal, padded with zeros to `width` digits.
RECURSIVE Padded(_, _)
Padded(n, width) ==
    IF width = 1 THEN <<DigitChar(n % 10)>>
    ELSE Append(Padded(n \div 10, width - 1), DigitChar(n % 10))

\* date.isoformat(): YYYY-MM-DD.
IsoFormat(d) == Padded(d.year, 4) \o <<"-">> \o Padded(d.month, 2) \o <<"-">> \o Padded(d.day, 2)

\* Line 47: the base_url computed by the constructor.
BaseUrl(athlete_id) == S_Athlete \o athlete_id \o S_Wellness

\* IntervalsClient(username, password, athlete_id).
NewClient(username, password, athlete_id) ==
    [username |-> username, password |-> password, athlete_id |-> athlete_id,
     base_url |-> BaseUrl(athlete_id)]

\* Lines 64-65: the URL of the wellness request.
WellnessUrl(c, day) == c.base_url \o <<"/">> \o IsoFormat(day)

\* Lines 50-51: the URL of the events request.
EventsUrl(c, day) == S_Athlete \o c.athlete_id \o S_Events \o IsoFormat(day)

\* requests.get(url, auth=(self.username, self.password), timeout=10).
Request(url, c) == [url |-> url, auth |-> <<c.username, c.password>>, timeout |-> REQUEST_TIMEOUT]

\* The arguments of requests.get once the url is built and self.username is
\* read: self.password is a separate attribute read, which another thread
\* can precede.
Prepared(url, c) == [Request(url, c) EXCEPT !.auth = <<c.username, <<>>>>]

\* The password is read and the request goes out.
Issued(req, c) == [req EXCEPT !.auth = <<@[1], c.password>>]
NoRequest == [url |-> <<>>, auth |-> <<<<>>, <<>>>>, timeout |-> 0]

\* Mutant of ReplaceNewlines: the text is left as it is.
ReplaceNewlines_Unchanged(text) == text

\* Line 179: stats.replace("\n", "\n "): every newline of text[lo..hi] is
\* followed by a space.
ReplaceNewlines(text) ==
    LET between[lo \in 1..(Len(text) + 1), hi \in 0..Len(text)] ==
            IF lo > hi THEN <<>>
            ELSE IF lo = hi THEN (IF text[lo] = "\n" THEN <<"\n", " ">> ELSE <<text[lo]>>)
            ELSE LET mid == (lo + hi) \div 2
                 IN  between[lo, mid] \o between[mid + 1, hi]
    IN  between[1, Len(text)]

Threads == {"ui", "sched"}

\* A thread that is not inside fetch_today_stats.
NoFetch ==
    [pc |-> "none", req |-> NoRequest, sent |-> <<>>, got |-> <<>>, stats |-> <<>>,
     result |-> NotCalled]

NoWindow == [shown |-> FALSE, label |-> <<>>]

AppIdle ==
    /\ today = [year |-> 2026, month |-> 10, day |-> 29]
    /\ client = NewClient(<<>>, <<>>, <<>>)
    /\ uiPc = "off"
    /\ fields = Settings(<<>>, <<>>, <<>>)
    /\ settingsShown = FALSE
    /\ statsWindow = NoWindow
    /\ schedPc = "off"
    /\ sleepLeft = 0
    /\ fetch = [t \in Threads |-> NoFetch]
    /\ tooltip = <<>>
    /\ saves = 0
    /\ lastWrite = "none"
    /\ credPairs = {}

\* The client driver before a call, and when it is not in use.

ClientIdle ==
    /\ wResp = TimedOut
    /\ eResp = TimedOut
    /\ actResult = NotCalled
    /\ statsResult = NotCalled

----------------------------------------------------------------------------
(* The settings driver: one save and any number of loads on an arbitrary    *)
(* settings file.                                                           *)

FieldAlphabet == {"a", "\"", "\\", "\f"}

RECURSIVE StringsUpTo(_, _)
StringsUpTo(alphabet, n) ==
    IF n = 0 THEN {<<>>}
    ELSE LET shorter == StringsUpTo(alphabet, n - 1) IN
         shorter \cup {Append(s, c) : s \in shorter, c \in alphabet}

FieldStrings == StringsUpTo(FieldAlphabet, MaxFieldLen)

NotLoaded == [called |-> FALSE, result |-> defaults]
Loaded(r) == [called |-> TRUE, result |-> r]

\* Settings files the driver starts from, each with the fields it stores:
\* <<>> for a field the file does not hold, <<v>> for a stored value v.
Bob == <<"b", "o", "b">>
Key == <<"k">>
Id7 == <<"i", "7">>
T_Garbage == <<"{", "\"", "u">>
T_Array == <<"[", "\"", "a", "\"", "]">>
T_Number == <<"5">>
T_EmptyObj == <<"{", "}">>
T_OnlyUser == <<"{">> \o EncodeStr(K_username) \o <<":">> \o EncodeStr(Bob) \o <<"}">>
T_OnlyPass == <<"{">> \o EncodeStr(K_password) \o <<":", " ">> \o EncodeStr(Key) \o <<"}", "\n">>
T_OnlyId == <<" ", "{">> \o EncodeStr(K_athlete_id) \o <<" ", ":">> \o EncodeStr(Id7) \o <<"}">>
T_Partial == <<"{">> \o SubSeq(EncodeStr(K_username), 1, 9)
T_RawFormFeed == <<"{">> \o EncodeStr(K_username) \o <<":", "\"", "a", "\f", "\"", "}">>
T_EscapedUser == <<"{">> \o EncodeStr(K_username)
                       \o <<":", "\"", "\\", "u", "0", "0", "E", "9", "\\", "b", "\\", "/", "\"", "}">>
EAcuteBackspaceSlash == <<"é", AsciiChars[8], "/">>
T_UserPass == <<"{">> \o EncodeStr(K_username) \o <<":">> \o EncodeStr(Bob) \o <<",">>
                     \o EncodeStr(K_password) \o <<":">> \o EncodeStr(Key) \o <<"}">>


\* Settings files whose fields are not strs: null, numbers, booleans, lists
\* and dicts.
T_Nulls ==
    <<"{", "\"", "u", "s", "e", "r", "n", "a", "m", "e", "\"", ":", " ", "n", "u", "l", "l",
      ",", " ", "\"", "p", "a", "s", "s", "w", "o", "r", "d", "\"", ":", " ", "n", "u", "l",
      "l", "}">>
T_Numbers ==
    <<"{", "\"", "u", "s", "e", "r", "n", "a", "m", "e", "\"", ":", " ", "0", ",", " ", "\"",
      "p", "a", "s", "s", "w", "o", "r", "d", "\"", ":", " ", "0", ",", " ", "\"", "a", "t",
      "h", "l", "e", "t", "e", "_", "i", "d", "\"", ":", " ", "7", "}">>
T_Bools ==
    <<"{", "\"", "u", "s", "e", "r", "n", "a", "m", "e", "\"", ":", " ", "f", "a", "l", "s",
      "e", ",", " ", "\"", "p", "a", "s", "s", "w", "o", "r", "d", "\"", ":", " ", "t", "r",
      "u", "e", ",", " ", "\"", "a", "t", "h", "l", "e", "t", "e", "_", "i", "d", "\"", ":",
      " ", "f", "a", "l", "s", "e", "}">>
T_Lists ==
    <<"{", "\"", "u", "s", "e", "r", "n", "a", "m", "e", "\"", ":", " ", "[", "]", ",", " ",
      "\"", "p", "a", "s", "s", "w", "o", "r", "d", "\"", ":", " ", "[", "]", ",", " ", "\"",
      "a", "t", "h", "l", "e", "t", "e", "_", "i", "d", "\"", ":", " ", "[", "\"", "i", "7",
      "\"", "]", "}">>
T_Dicts ==
    <<"{", "\"", "u", "s", "e", "r", "n", "a", "m", "e", "\"", ":", " ", "{", "}", ",", " ",
      "\"", "p", "a", "s", "s", "w", "o", "r", "d", "\"", ":", " ", "{", "\"", "a", "\"", ":",
      " ", "1", "}", ",", " ", "\"", "a", "t", "h", "l", "e", "t", "e", "_", "i", "d", "\"",
      ":", " ", "1", ".", "5", "}">>

FileCase(f, u, p, a) == [f |-> f, u |-> u, p |-> p, a |-> a]

InitialCases ==
    {FileCase(NoFile, <<>>, <<>>, <<>>),
     FileCase(Unreadable(T_OnlyUser), <<>>, <<>>, <<>>),
     FileCase(FileWith(<<>>), <<>>, <<>>, <<>>),
     FileCase(FileWith(T_Garbage), <<>>, <<>>, <<>>),
     FileCase(FileWith(T_Array), <<>>, <<>>, <<>>),
     FileCase(FileWith(T_Number), <<>>, <<>>, <<>>),
     FileCase(FileWith(T_EmptyObj), <<>>, <<>>, <<>>),
     FileCase(FileWith(T_Partial), <<>>, <<>>, <<>>),
     FileCase(FileWith(T_RawFormFeed), <<>>, <<>>, <<>>),
     FileCase(FileWith(T_EscapedUser), <<JStr(EAcuteBackspaceSlash)>>, <<>>, <<>>),
     FileCase(FileWith(T_OnlyUser), <<JStr(Bob)>>, <<>>, <<>>),
     FileCase(FileWith(T_OnlyPass), <<>>, <<JStr(Key)>>, <<>>),
     FileCase(FileWith(T_OnlyId), <<>>, <<>>, <<JStr(Id7)>>),
     FileCase(FileWith(T_UserPass), <<JStr(Bob)>>, <<JStr(Key)>>, <<>>),
     FileCase(FileWith(T_Nulls), <<JNull>>, <<JNull>>, <<>>),
     FileCase(FileWith(T_Numbers), <<JInt(0)>>, <<JInt(0)>>, <<JInt(7)>>),
     FileCase(FileWith(T_Bools), <<JBool(FALSE)>>, <<JBool(TRUE)>>, <<JBool(FALSE)>>),
     FileCase(FileWith(T_Lists), <<JArr(<<>>)>>, <<JArr(<<>>)>>, <<JArr(<<JStr(Id7)>>)>>),
     FileCase(FileWith(T_Dicts), <<EmptyDict>>, <<Dict(<<<<"a">>>>, <<"a">> :> JInt(1))>>,
              <<JFloat(FALSE, 1500)>>),
     FileCase(FileWith(DumpSettings(<<>>, <<>>, <<>>)),
              <<JStr(S_Empty)>>, <<JStr(S_Empty)>>, <<JStr(S_Empty)>>),
     FileCase(FileWith(DumpSettings(Bob, <<>>, Id7)),
              <<JStr(Bob)>>, <<JStr(S_Empty)>>, <<JStr(Id7)>>),
     FileCase(FileWith(DumpSettings(<<>>, Key, Id7)),
              <<JStr(S_Empty)>>, <<JStr(Key)>>, <<JStr(Id7)>>),
     FileCase(FileWith(DumpSettings(Bob, Key, <<>>)),
              <<JStr(Bob)>>, <<JStr(Key)>>, <<JStr(S_Empty)>>)}

InitialFiles == {c.f : c \in InitialCases}

\* What the driver saves: any triple over a file that is missing, cannot be
\* read or holds settings, and a few triples over every other file.
SaveTriples == {Settings(u, p, a) : u \in FieldStrings, p \in FieldStrings, a \in FieldStrings}
SaveTargets == {NoFile, Unreadable(T_OnlyUser), FileWith(T_UserPass)}
SaveSamples ==
    {Settings(<<>>, <<>>, <<>>), Settings(Bob, Key, Id7),
     Settings(<<"\"">>, <<"\\">>, <<"\f">>),
     Settings(<<"é">>, <<"€", AsciiChars[8]>>, <<AsciiChars[127], "\n">>)}

SettingsIdle ==
    /\ file0 = NoFile
    /\ saveArgs = Settings(<<>>, <<>>, <<>>)
    /\ loaded = NotLoaded
    /\ sPc = "idle"

\* The permissions the driver saves under: every place a write can be cut
\* at, and every mode the file or its directory and the umask can give.
Limits(text) == {<<>>} \cup {<<n>> : n \in 0..(Len(text) - 1)}
Modes == {Mode(r, w) : r \in BOOLEAN, w \in BOOLEAN}
PermissionsFor(f, limits) ==
    {Permissions(w, m, l) : w \in BOOLEAN, m \in (IF f.exists THEN {Mode(TRUE, TRUE)} ELSE Modes),
                            l \in limits}

InitSettings ==
    /\ ClientIdle
    /\ AppIdle
    /\ \/ /\ file \in InitialFiles
          /\ saveArgs \in SaveSamples
          /\ perm \in PermissionsFor(file, {<<>>})
       \/ /\ file \in SaveTargets
          /\ saveArgs \in SaveSamples
          /\ perm \in PermissionsFor(file, Limits(DumpSettings(saveArgs.username,
                                                               saveArgs.password,
                                                               saveArgs.athlete_id)))
       \/ /\ file \in SaveTargets
          /\ saveArgs \in SaveTriples
          /\ perm = Unrestricted
    /\ file0 = file
    /\ loaded = NotLoaded
    /\ sPc = "start"

\* save_settings(username, password, athlete_id) with the driver's arguments.
SettingsSave ==
    /\ sPc = "start"
    /\ file' = save_settings(file, perm, saveArgs.username, saveArgs.password,
                             saveArgs.athlete_id)
    /\ perm' = IF perm.writable THEN AfterOpen(file, perm) ELSE perm
    /\ sPc' = IF WriteSucceeds(perm, DumpSettings(saveArgs.username, saveArgs.password,
                                                  saveArgs.athlete_id))
              THEN "saved" ELSE "save_failed"
    /\ loaded' = NotLoaded
    /\ UNCHANGED <<file0, saveArgs>>
    /\ UNCHANGED <<clientVars, appVars>>

\* load_settings().
SettingsLoad ==
    /\ ~loaded.called
    /\ loaded' = Loaded(load_settings(file))
    /\ UNCHANGED <<file, perm, file0, saveArgs, sPc>>
    /\ UNCHANGED <<clientVars, appVars>>

NextSettings == SettingsSave \/ SettingsLoad

SpecSettings == InitSettings /\ [][NextSettings]_vars

----------------------------------------------------------------------------
(* The client driver: fetch_today_activity and fetch_today_stats on        *)
(* arbitrary outcomes of the two requests.                                  *)

RECURSIVE SeqsUpTo(_, _)
SeqsUpTo(S, n) ==
    IF n = 0 THEN {<<>>}
    ELSE LET shorter == SeqsUpTo(S, n - 1) IN
         shorter \cup {Append(q, x) : q \in shorter, x \in S}

StatusCodes == {101, 200, 201, 304, 404, 500}

N_Run == <<"R", "u", "n">>
N_TwoLines == <<"a", "\n", "b">>

Named(v) == Dict(<<K_name>>, K_name :> v)

\* What the name of an event can be.
NameValues ==
    {JStr(N_Run), JStr(<<>>), JStr(N_TwoLines), JNull, JInt(5), JArr(<<JStr(<<"x">>)>>),
     Dict(<<K_name>>, K_name :> JFloat(FALSE, 1500))}

\* What an element of the events array can be.
EventElements ==
    {Named(v) : v \in NameValues}
    \cup {EmptyDict, Dict(<<K_ctl>>, K_ctl :> JInt(1)), JStr(N_Run), JNull, JInt(3), JArr(<<>>)}

EventsBodies ==
    {Json(JArr(a)) : a \in SeqsUpTo(EventElements, MaxEvents)}
    \cup {NotJson, Json(JNull), Json(Named(JStr(N_Run))), Json(JStr(N_Run)), Json(JInt(0)),
          Json(JBool(TRUE))}

EventsResponses ==
    {TimedOut, ConnError} \cup {Http(st, b) : st \in StatusCodes, b \in EventsBodies}

\* The outcomes of the events request the stats driver runs with.
EventsSamples ==
    {TimedOut, ConnError, Http(500, NotJson), Http(404, Json(JArr(<<Named(JStr(N_Run))>>))),
     Http(200, NotJson), Http(200, Json(JArr(<<>>))), Http(200, Json(JArr(<<JNull>>))),
     Http(200, Json(JArr(<<EmptyDict>>)))}
    \cup {Http(200, Json(JArr(<<Named(v)>>))) : v \in NameValues}

MetricKeys == {K_ctl, K_atl, K_rampRate, K_restingHR, K_hrv, K_sleepScore, K_steps}

\* The order the metrics have in a payload of the driver.
MetricOrder == <<K_ctl, K_atl, K_rampRate, K_restingHR, K_hrv, K_sleepScore, K_steps>>
Payload(o) == JObjIn(MetricOrder, o)
LoadSamples == {0, 30, 50}

\* A payload with every metric present and integer-valued.
FullPayload(ctl, atl) ==
    (K_ctl :> JInt(ctl)) @@ (K_atl :> JInt(atl)) @@ (K_rampRate :> JInt(2))
    @@ (K_restingHR :> JInt(48)) @@ (K_hrv :> JInt(61)) @@ (K_sleepScore :> JInt(85))
    @@ (K_steps :> JInt(10432))

Restrict(f, S) == [k \in S |-> f[k]]

\* Payloads with integer-valued metrics, any subset of them present.
IntPayloads ==
    {Payload(Restrict(FullPayload(c, a), present)) :
        c \in LoadSamples, a \in LoadSamples, present \in SUBSET MetricKeys}

\* 5 * 10^4299 and its negative: ints of 4300 digits, the longest that
\* json.load reads, whose difference has 4301.
HugeLoads ==
    {Integer(neg, Fixed([i \in 1..1434 |-> IF i = 1434 THEN 5 ELSE 0])) : neg \in BOOLEAN}

\* Payloads with a ctl of 4300 digits.
HugePayloads ==
    {Payload((K_ctl :> c) @@ (K_atl :> a) @@ FullPayload(50, 30)) :
        c \in HugeLoads, a \in HugeLoads \cup {JInt(30)}}

\* Values of a metric that are not ints.
OddValues ==
    {JFloat(FALSE, 1234), JFloat(FALSE, 1236), JFloat(TRUE, 1), JFloat(FALSE, 50700),
     JFloat(TRUE, 2875), JFloat(FALSE, 1005), DoubleOfDecimal(FALSE, <<1, 5>>, 0 - 6),
     DoubleOfDecimal(FALSE, <<1>>, 22), NaN, Infinity(TRUE),
     JNull, JStr(<<"x">>), JStr(<<"1", "2">>), JStr(<<" ", "1", "_", "2", "\n">>), JBool(TRUE),
     JArr(<<>>)}

\* Payloads with one metric that is not an int.
OddPayloads == {Payload((k :> v) @@ FullPayload(50, 30)) : k \in MetricKeys, v \in OddValues}

WellnessBodies ==
    {Json(d) : d \in IntPayloads \cup HugePayloads \cup OddPayloads}
    \cup {NotJson, Json(JNull), Json(JArr(<<>>)), Json(JArr(<<Payload(FullPayload(50, 30))>>)),
          Json(JStr(N_Run)), Json(JInt(7))}

WellnessResponses ==
    {TimedOut, ConnError}
    \cup {Http(200, b) : b \in WellnessBodies}
    \cup {Http(st, b) : st \in StatusCodes, b \in {NotJson, Json(Payload(FullPayload(50, 30)))}}

\* The responses with integer-valued metrics, and the outcomes of the events
\* request they are run with.
IntResponses == {Http(200, Json(d)) : d \in IntPayloads \cup HugePayloads}
EventsFew ==
    {TimedOut, Http(500, NotJson), Http(200, Json(JArr(<<>>))),
     Http(200, Json(JArr(<<Named(JStr(N_Run))>>)))}

InitClient ==
    /\ file = NoFile
    /\ perm = Unrestricted
    /\ SettingsIdle
    /\ AppIdle
    /\ \/ wResp \in WellnessResponses \ IntResponses /\ eResp \in EventsSamples
       \/ wResp \in IntResponses /\ eResp \in EventsFew
       \/ wResp = Http(200, Json(Payload(FullPayload(50, 30)))) /\ eResp \in EventsResponses
    /\ actResult = NotCalled
    /\ statsResult = NotCalled

\* client.fetch_today_activity()
CallFetchTodayActivity ==
    /\ ~actResult.called
    /\ actResult' = Called(fetch_today_activity(eResp))
    /\ UNCHANGED <<wResp, eResp, statsResult>>
    /\ UNCHANGED <<file, perm, settingsVars, appVars>>

\* client.fetch_today_stats()
CallFetchTodayStats ==
    /\ ~statsResult.called
    /\ statsResult' = Called(fetch_today_stats(wResp, eResp))
    /\ UNCHANGED <<wResp, eResp, actResult>>
    /\ UNCHANGED <<file, perm, settingsVars, appVars>>

NextClient == CallFetchTodayActivity \/ CallFetchTodayStats

SpecClient == InitClient /\ [][NextClient]_vars

----------------------------------------------------------------------------
(* The application: App.OnInit, the UI thread's handlers and the refresh    *)
(* thread. The UI thread runs one handler at a time; the refresh thread     *)
(* runs beside it. A thread inside requests.get waits for the outcome of    *)
(* its request.                                                             *)

User1 == <<"u", "1">>
Pass1 == <<"k", "1">>
Athlete1 == <<"i", "4", "2">>

Euro == <<"€">>

\* What the user can type into the settings window: a password of ASCII
\* characters, and one with a character that latin-1 does not have.
EnteredSettings ==
    {Settings(User1, Pass1, Athlete1), Settings(User1, Euro, Athlete1)}

\* The settings file the application can start with, and what the process
\* may do with it.  The fields of the file are strs.
AppInitialFiles == {NoFile, FileWith(DumpSettings(User1, Pass1, Athlete1))}
AppLimits == {<<>>, <<0>>, <<20>>}
AppPermissions(f) ==
    {Unrestricted, Permissions(FALSE, Mode(TRUE, TRUE), <<>>)}
    \cup {Permissions(TRUE, Mode(TRUE, TRUE), l) : l \in AppLimits}
    \cup (IF f.exists THEN {} ELSE {Permissions(TRUE, Mode(FALSE, TRUE), <<>>),
                                     Permissions(TRUE, Mode(TRUE, FALSE), <<>>)})

Dates == {[year |-> 2026, month |-> 10, day |-> 29]}

\* The outcomes of the requests of the running application.
\* The refresh thread meets every kind of outcome, a double click the two
\* main ones.
AppWellnessResponses(t) ==
    IF t = "sched"
    THEN {TimedOut, Http(500, NotJson), Http(200, NotJson), Http(200, Json(JArr(<<>>))),
          Http(200, Json(Payload(FullPayload(50, 30)))), Http(304, Json(Payload(FullPayload(50, 30))))}
    ELSE {TimedOut, Http(200, Json(Payload(FullPayload(50, 30))))}
AppEventsResponses ==
    {TimedOut, ConnError, Http(500, NotJson), Http(200, NotJson), Http(200, Json(JArr(<<>>))),
     Http(200, Json(JArr(<<EmptyDict>>))), Http(200, Json(JArr(<<Named(JStr(N_Run))>>))),
     Http(304, Json(JArr(<<Named(JStr(N_Run))>>)))}

\* Mutant of InitApp: the refresh thread sleeps before its first fetch.
InitApp_SleepFirst ==
    /\ SettingsIdle
    /\ ClientIdle
    /\ file \in AppInitialFiles
    /\ perm \in AppPermissions(file)
    /\ today \in Dates
    /\ client = LET ClientOf(st) == NewClient(st.username.s, st.password.s, st.athlete_id.s)
                IN  ClientOf(load_settings(file))
    /\ uiPc = "idle"
    /\ fields = Settings(<<>>, <<>>, <<>>)
    /\ settingsShown = FALSE
    /\ statsWindow = NoWindow
    /\ schedPc = "sleep"
    /\ sleepLeft = REFRESH_INTERVAL
    /\ fetch = [t \in Threads |-> NoFetch]
    /\ tooltip = S_Intervals
    /\ saves = 0
    /\ lastWrite = "none"
    /\ credPairs = {<<client.username, client.password>>}

\* App.OnInit (lines 189-191) and TrayApp.__init__ (lines 97-105): the
\* settings are loaded, the client built from them, the tooltip set to
\* "Intervals" and the refresh thread started.
InitApp ==
    /\ SettingsIdle
    /\ ClientIdle
    /\ file \in AppInitialFiles
    /\ perm \in AppPermissions(file)
    /\ today \in Dates
    /\ client = LET ClientOf(st) == NewClient(st.username.s, st.password.s, st.athlete_id.s)
                IN  ClientOf(load_settings(file))
    /\ uiPc = "idle"
    /\ fields = Settings(<<>>, <<>>, <<>>)
    /\ settingsShown = FALSE
    /\ statsWindow = NoWindow
    /\ schedPc = "loop"
    /\ sleepLeft = 0
    /\ fetch = [t \in Threads |-> NoFetch]
    /\ tooltip = S_Intervals
    /\ saves = 0
    /\ lastWrite = "none"
    /\ credPairs = {<<client.username, client.password>>}

\* fetch_today_stats up to the arguments of its requests.get (lines 64-67).
BeginFetch(c, day) ==
    [pc |-> "wellness_auth", req |-> Prepared(WellnessUrl(c, day), c), sent |-> <<>>,
     got |-> <<>>, stats |-> <<>>, result |-> NotCalled]

\* requests.get raises on credentials it cannot encode: nothing is sent.
\* In fetch_today_stats (line 67) the except clause returns; in
\* fetch_today_activity (line 53) the activity is "Rest" and the summary is
\* composed (lines 59-61, 71).
SendFails(f) ==
    [f EXCEPT !.pc = "done", !.req = NoRequest,
              !.result = Called(StatsExcept(IF f.pc = "wellness_auth" THEN Raised
                                            ELSE StatsWithActivity(JStr(f.stats), EncodeError)))]

\* requests.get is called (line 67 or line 53): the request is on its way,
\* unless the credentials cannot be encoded.
SendPrepared(f, c) ==
    IF Encodable(Issued(f.req, c).auth)
    THEN [f EXCEPT !.pc = IF f.pc = "wellness_auth" THEN "wellness_wait" ELSE "events_wait",
                   !.req = Issued(f.req, c),
                   !.sent = Append(@, IF f.pc = "wellness_auth" THEN "wellness" ELSE "events")]
    ELSE SendFails(f)

\* What a thread keeps of the wellness response for the record: its kind
\* and status.
Received(resp) == [kind |-> resp.kind, status |-> resp.status, json |-> resp.body.valid]

\* fetch_today_stats from the outcome of the wellness request to the
\* arguments of the requests.get of fetch_today_activity (lines 67-70,
\* 50-53), or to its return in the except clause.
AfterWellness(f, resp, c, day) ==
    LET stats == WellnessTry(resp) IN
    IF stats.raised
    THEN [f EXCEPT !.pc = "done", !.req = NoRequest, !.got = Append(@, Received(resp)),
                   !.result = Called(StatsExcept(Raised))]
    ELSE [f EXCEPT !.pc = "events_auth", !.req = Prepared(EventsUrl(c, day), c),
                   !.got = Append(@, Received(resp)), !.stats = stats.val.s]

\* fetch_today_stats from the outcome of the events request to its return
\* (lines 53-61, 71-74).
AfterEvents(f, resp) ==
    [f EXCEPT !.pc = "done", !.req = NoRequest,
              !.result = Called(StatsExcept(StatsWithActivity(JStr(f.stats), resp)))]

\* The UI thread is the only one that assigns the client's attributes, so
\* nothing comes between its own reads: it prepares and sends in one step.
ThroughSend(t, f, c) ==
    IF t = "ui" /\ f.pc \in {"wellness_auth", "events_auth"} THEN SendPrepared(f, c) ELSE f

\* The refresh thread reads self.password and calls requests.get.
SendRequest(t) ==
    /\ t = "sched"
    /\ fetch[t].pc \in {"wellness_auth", "events_auth"}
    /\ fetch' = [fetch EXCEPT ![t] = SendPrepared(fetch[t], client)]
    /\ UNCHANGED <<today, client, uiPc, fields, settingsShown, statsWindow, schedPc, sleepLeft,
                   tooltip, saves, lastWrite, credPairs>>
    /\ UNCHANGED <<file, perm, settingsVars, clientVars>>

\* The wellness request of thread t ends.
WellnessResponse(t) ==
    /\ fetch[t].pc = "wellness_wait"
    /\ \E resp \in AppWellnessResponses(t) :
          fetch' = [fetch EXCEPT
                       ![t] = ThroughSend(t, AfterWellness(fetch[t], resp, client, today), client)]
    /\ UNCHANGED <<today, client, uiPc, fields, settingsShown, statsWindow, schedPc, sleepLeft,
                   tooltip, saves, lastWrite, credPairs>>
    /\ UNCHANGED <<file, perm, settingsVars, clientVars>>

\* The events request of thread t ends.
EventsResponse(t) ==
    /\ fetch[t].pc = "events_wait"
    /\ \E resp \in AppEventsResponses :
          fetch' = [fetch EXCEPT ![t] = AfterEvents(fetch[t], resp)]
    /\ UNCHANGED <<today, client, uiPc, fields, settingsShown, statsWindow, schedPc, sleepLeft,
                   tooltip, saves, lastWrite, credPairs>>
    /\ UNCHANGED <<file, perm, settingsVars, clientVars>>

\* The refresh thread calls fetch_today_stats (line 178).
SchedFetch ==
    /\ schedPc = "loop"
    /\ schedPc' = "fetching"
    /\ fetch' = [fetch EXCEPT !["sched"] = BeginFetch(client, today)]
    /\ UNCHANGED <<today, client, uiPc, fields, settingsShown, statsWindow, sleepLeft, tooltip,
                   saves, lastWrite, credPairs>>
    /\ UNCHANGED <<file, perm, settingsVars, clientVars>>

\* The refresh thread publishes what fetch_today_stats returned and starts
\* to sleep (lines 179-181); an exception would end the thread.
SchedPublish ==
    /\ schedPc = "fetching"
    /\ fetch["sched"].pc = "done"
    /\ IF fetch["sched"].result.raised
       THEN /\ schedPc' = "dead"
            /\ UNCHANGED <<tooltip, sleepLeft>>
       ELSE /\ tooltip' = ReplaceNewlines(fetch["sched"].result.val.s)
            /\ schedPc' = "sleep"
            /\ sleepLeft' = REFRESH_INTERVAL
    /\ fetch' = [fetch EXCEPT !["sched"] = NoFetch]
    /\ UNCHANGED <<today, client, uiPc, fields, settingsShown, statsWindow, saves, lastWrite, credPairs>>
    /\ UNCHANGED <<file, perm, settingsVars, clientVars>>

\* Time passes while the refresh thread sleeps.
Tick ==
    /\ schedPc = "sleep"
    /\ sleepLeft > 0
    /\ sleepLeft' = IF sleepLeft > TimeStep THEN sleepLeft - TimeStep ELSE 0
    /\ UNCHANGED <<today, client, uiPc, fields, settingsShown, statsWindow, schedPc, fetch,
                   tooltip, saves, lastWrite, credPairs>>
    /\ UNCHANGED <<file, perm, settingsVars, clientVars>>

\* Mutant of SchedWake: the sleep returns before its time is over.
SchedWake_Early ==
    /\ schedPc = "sleep"
    /\ schedPc' = "loop"
    /\ sleepLeft' = 0
    /\ UNCHANGED <<today, client, uiPc, fields, settingsShown, statsWindow, fetch, tooltip,
                   saves, lastWrite, credPairs>>
    /\ UNCHANGED <<file, perm, settingsVars, clientVars>>

\* time.sleep(REFRESH_INTERVAL) returns (line 181) and the loop goes round.
SchedWake ==
    /\ schedPc = "sleep"
    /\ sleepLeft = 0
    /\ schedPc' = "loop"
    /\ UNCHANGED <<today, client, uiPc, fields, settingsShown, statsWindow, sleepLeft, fetch,
                   tooltip, saves, lastWrite, credPairs>>
    /\ UNCHANGED <<file, perm, settingsVars, clientVars>>

\* show_stats, from a double click or the Stats menu item (lines 123-128):
\* a shown window is raised; otherwise the handler calls fetch_today_stats.
ShowStats ==
    /\ uiPc = "idle"
    /\ IF statsWindow.shown
       THEN UNCHANGED <<uiPc, fetch>>
       ELSE /\ uiPc' = "show_stats"
            /\ fetch' = [fetch EXCEPT !["ui"] = ThroughSend("ui", BeginFetch(client, today), client)]
    /\ UNCHANGED <<today, client, fields, settingsShown, statsWindow, schedPc, sleepLeft,
                   tooltip, saves, lastWrite, credPairs>>
    /\ UNCHANGED <<file, perm, settingsVars, clientVars>>

\* show_stats after fetch_today_stats returned (lines 129-138): the window
\* is created with the stats as its label and shown.
ShowStatsFinish ==
    /\ uiPc = "show_stats"
    /\ fetch["ui"].pc = "done"
    /\ statsWindow' = IF fetch["ui"].result.raised THEN statsWindow
                      ELSE [shown |-> TRUE, label |-> fetch["ui"].result.val.s]
    /\ uiPc' = "idle"
    /\ fetch' = [fetch EXCEPT !["ui"] = NoFetch]
    /\ UNCHANGED <<today, client, fields, settingsShown, schedPc, sleepLeft, tooltip, saves, lastWrite, credPairs>>
    /\ UNCHANGED <<file, perm, settingsVars, clientVars>>

\* The user closes the stats window.
CloseStats ==
    /\ uiPc = "idle"
    /\ statsWindow.shown
    /\ statsWindow' = NoWindow
    /\ UNCHANGED <<today, client, uiPc, fields, settingsShown, schedPc, sleepLeft, fetch,
                   tooltip, saves, lastWrite, credPairs>>
    /\ UNCHANGED <<file, perm, settingsVars, clientVars>>

\* Mutant of ShowSettings: opening the window clears the client's password.
ShowSettings_ClearsPassword ==
    /\ uiPc = "idle"
    /\ IF settingsShown
       THEN UNCHANGED <<settingsShown, fields>>
       ELSE /\ settingsShown' = TRUE
            /\ fields' = Settings(client.username, client.password, client.athlete_id)
    /\ client' = [client EXCEPT !.password = <<>>]
    /\ UNCHANGED <<today, uiPc, statsWindow, schedPc, sleepLeft, fetch, tooltip, saves,
                   lastWrite, credPairs>>
    /\ UNCHANGED <<file, perm, settingsVars, clientVars>>

\* show_settings (lines 140-173): a shown window is raised; otherwise it
\* is created with the client's values in its fields.
ShowSettings ==
    /\ uiPc = "idle"
    /\ IF settingsShown
       THEN UNCHANGED <<settingsShown, fields>>
       ELSE /\ settingsShown' = TRUE
            /\ fields' = Settings(client.username, client.password, client.athlete_id)
    /\ UNCHANGED <<today, client, uiPc, statsWindow, schedPc, sleepLeft, fetch, tooltip, saves, lastWrite, credPairs>>
    /\ UNCHANGED <<file, perm, settingsVars, clientVars>>

\* The user closes the settings window without saving.
CloseSettings ==
    /\ uiPc = "idle"
    /\ settingsShown
    /\ settingsShown' = FALSE
    /\ UNCHANGED <<today, client, uiPc, fields, statsWindow, schedPc, sleepLeft, fetch,
                   tooltip, saves, lastWrite, credPairs>>
    /\ UNCHANGED <<file, perm, settingsVars, clientVars>>

\* The user fills in the fields and presses Save: on_save up to line 162.
OnSave ==
    /\ uiPc = "idle"
    /\ settingsShown
    /\ saves < MaxSaves
    /\ \E entered \in EnteredSettings :
          /\ fields' = entered
          /\ client' = [client EXCEPT !.username = entered.username]
          /\ credPairs' = credPairs \cup {<<entered.username, entered.password>>}
    /\ uiPc' = "on_save_password"
    /\ saves' = saves + 1
    /\ UNCHANGED <<today, settingsShown, statsWindow, schedPc, sleepLeft, fetch, tooltip,
                   lastWrite>>
    /\ UNCHANGED <<file, perm, settingsVars, clientVars>>

\* on_save, line 163.
OnSavePassword ==
    /\ uiPc = "on_save_password"
    /\ client' = [client EXCEPT !.password = fields.password]
    /\ uiPc' = "on_save_athlete"
    /\ UNCHANGED <<today, fields, settingsShown, statsWindow, schedPc, sleepLeft, fetch,
                   tooltip, saves, lastWrite, credPairs>>
    /\ UNCHANGED <<file, perm, settingsVars, clientVars>>

\* on_save, line 164.
OnSaveAthlete ==
    /\ uiPc = "on_save_athlete"
    /\ client' = [client EXCEPT !.athlete_id = fields.athlete_id]
    /\ uiPc' = "on_save_open"
    /\ UNCHANGED <<today, fields, settingsShown, statsWindow, schedPc, sleepLeft, fetch,
                   tooltip, saves, lastWrite, credPairs>>
    /\ UNCHANGED <<file, perm, settingsVars, clientVars>>

\* on_save, line 165, save_settings up to its open() (line 33): the file is
\* created or truncated, or open() raises, the except clause prints and
\* save_settings returns.
OnSaveOpen ==
    /\ uiPc = "on_save_open"
    /\ IF perm.writable
       THEN /\ file' = OpenForWrite(file, perm)
            /\ perm' = AfterOpen(file, perm)
            /\ uiPc' = "on_save_write"
            /\ UNCHANGED lastWrite
       ELSE /\ lastWrite' = "failed"
            /\ uiPc' = "on_save_close"
            /\ UNCHANGED <<file, perm>>
    /\ UNCHANGED <<today, client, fields, settingsShown, statsWindow, schedPc, sleepLeft, fetch,
                   tooltip, saves, credPairs>>
    /\ UNCHANGED <<settingsVars, clientVars>>

\* save_settings, lines 34-40: the text is written and the file closed, or
\* the write raises part-way and the except clause prints.
OnSaveWrite ==
    /\ uiPc = "on_save_write"
    /\ LET text == DumpSettings(client.username, client.password, client.athlete_id)
       IN  /\ file' = WriteText(file, perm, text)
           /\ lastWrite' = IF Written(perm, text) = Len(text) THEN "ok" ELSE "failed"
    /\ uiPc' = "on_save_close"
    /\ UNCHANGED <<today, client, fields, settingsShown, statsWindow, schedPc, sleepLeft, fetch,
                   tooltip, saves, credPairs>>
    /\ UNCHANGED <<perm, settingsVars, clientVars>>

\* on_save, line 166: the settings window is closed.
OnSaveClose ==
    /\ uiPc = "on_save_close"
    /\ settingsShown' = FALSE
    /\ uiPc' = "idle"
    /\ UNCHANGED <<today, client, fields, statsWindow, schedPc, sleepLeft, fetch, tooltip,
                   saves, lastWrite, credPairs>>
    /\ UNCHANGED <<file, perm, settingsVars, clientVars>>

\* The Exit item of the popup menu (lines 111, 114) and the end of MainLoop
\* (line 195): the process ends, and with it its windows, its tray icon and
\* the refresh thread, which is a daemon thread (line 182), wherever it is.
ExitApp ==
    /\ uiPc = "idle"
    /\ uiPc' = "exited"
    /\ schedPc' = "exited"
    /\ fetch' = [t \in Threads |-> NoFetch]
    /\ settingsShown' = FALSE
    /\ statsWindow' = NoWindow
    /\ tooltip' = <<>>
    /\ UNCHANGED <<today, client, fields, sleepLeft, saves, lastWrite, credPairs>>
    /\ UNCHANGED <<file, perm, settingsVars, clientVars>>

Next ==
    \/ \E t \in Threads : WellnessResponse(t)
    \/ \E t \in Threads : EventsResponse(t)
    \/ SendRequest("sched")
    \/ SchedFetch
    \/ SchedPublish
    \/ Tick
    \/ SchedWake
    \/ ShowStats
    \/ ShowStatsFinish
    \/ CloseStats
    \/ ShowSettings
    \/ CloseSettings
    \/ OnSave
    \/ OnSavePassword
    \/ OnSaveAthlete
    \/ OnSaveOpen
    \/ OnSaveWrite
    \/ OnSaveClose
    \/ ExitApp

Spec == InitApp /\ [][Next]_vars

\* The conditions under which the refresh thread can publish, a request of
\* it can end (a timeout is always among its outcomes), and it can call
\* requests.get (it has the arguments).
PublishAwaited == schedPc = "fetching" /\ fetch["sched"].pc = "done"
WellnessAwaited == fetch["sched"].pc = "wellness_wait"
EventsAwaited == fetch["sched"].pc = "events_wait"
SendAwaited == fetch["sched"].pc \in {"wellness_auth", "events_auth"}

\* The refresh thread is scheduled, time passes, and every request of the
\* refresh thread ends (requests.get has a timeout): weak fairness of each
\* step of the thread.  SchedPublish, WellnessResponse("sched"),
\* EventsResponse("sched") and SendRequest("sched") can each be taken exactly
\* when its condition above holds, and each of their steps ends that
\* condition, so that WF_vars of each is that its condition does not hold
\* for ever, and is written so.
SchedFairness ==
    /\ WF_vars(SchedFetch)
    /\ WF_vars(Tick)
    /\ WF_vars(SchedWake)
    /\ []<>~PublishAwaited
    /\ []<>~WellnessAwaited
    /\ []<>~EventsAwaited
    /\ []<>~SendAwaited

FairSpec == Spec /\ SchedFairness

----------------------------------------------------------------------------
(* Claims about the settings store (checked under SpecSettings) *)

\* The saved triple as load_settings would return it unchanged.
SavedTriple == Settings(JStr(saveArgs.username), JStr(saveArgs.password), JStr(saveArgs.athlete_id))

RoundTripDone == sPc = "saved" /\ loaded.called

\* C3 as stated: for every triple of strings, the empty string included, a
\* save_settings whose write succeeds followed by load_settings returns the
\* same triple.
C3_RoundTripAnyTriple == RoundTripDone => loaded.result = SavedTriple

\* C3 as amended: a successful save to a file the process can read, followed
\* by a load, returns the saved password always, and the saved username and
\* athlete_id whenever they are not empty; an empty username loads as
\* "API_KEY" and an empty athlete_id as "0".
C3_RoundTripNonEmpty ==
    (RoundTripDone /\ file.readable) =>
        /\ loaded.result.password = JStr(saveArgs.password)
        /\ loaded.result.username =
              IF saveArgs.username # <<>> THEN JStr(saveArgs.username) ELSE JStr(S_API_KEY)
        /\ loaded.result.athlete_id =
              IF saveArgs.athlete_id # <<>> THEN JStr(saveArgs.athlete_id) ELSE JStr(S_Zero)

\* A round trip of a triple whose fields need escaping in the file.
C3_Witness ==
    /\ RoundTripDone
    /\ saveArgs = Settings(<<"\"">>, <<"\\">>, <<"a">>)
    /\ loaded.result = SavedTriple

\* The fields the settings file holds for a reader: <<>> for none, <<v>> for
\* a stored value v.  A file that cannot be read holds none.  After a successful
\* save the file holds the saved triple; a write that failed after truncating
\* leaves the beginning of a JSON text, which is not JSON; otherwise the file
\* is the one the driver started from.
StoredFields ==
    IF ~file.exists \/ ~file.readable THEN FileCase(file, <<>>, <<>>, <<>>)
    ELSE IF sPc = "saved"
    THEN FileCase(file, <<JStr(saveArgs.username)>>, <<JStr(saveArgs.password)>>,
                  <<JStr(saveArgs.athlete_id)>>)
    ELSE IF file # file0 THEN FileCase(file, <<>>, <<>>, <<>>)
    ELSE CHOOSE c \in InitialCases : c.f = file0

\* The value load_settings is to return for a field: the stored value when
\* it is present and not empty, else the default.  Empty is what Python
\* takes for false: "", null, 0, false, [] and {}.
StoredOr(stored, default) ==
    IF stored # <<>> /\ Truthy(stored[1]) THEN stored[1] ELSE JStr(default)

\* C7: for every state of the settings file (missing, unreadable, not
\* JSON, JSON that is not an object, an object with any subset of the
\* fields present or empty) load_settings returns, for each field on its
\* own, the stored value when present and not empty and else the default
\* (username "API_KEY", password "", athlete_id "0").
C7_LoadDefaultsPerField ==
    loaded.called =>
        loaded.result = Settings(StoredOr(StoredFields.u, S_API_KEY),
                                 StoredOr(StoredFields.p, S_Empty),
                                 StoredOr(StoredFields.a, S_Zero))

----------------------------------------------------------------------------
(* Claims about the client (checked under SpecClient) *)

\* The request timed out or was answered with HTTP 500.
TimeoutOr500(resp) == resp.kind = "timeout" \/ (resp.kind = "http" /\ resp.status = 500)

\* The wellness part of fetch_today_stats succeeded for this outcome: a
\* response that is no HTTP error and whose body is a payload _parse_stats
\* accepts.
WellnessAccepted(resp) == ~WellnessTry(resp).raised

\* C1 as stated: fetch_today_stats never raises, and whenever either of the
\* two endpoints answers with HTTP 500 or times out, it returns exactly
\* "Failed to fetch data".
C1_FailedOnEitherEndpoint ==
    statsResult.called =>
        /\ ~statsResult.raised
        /\ (TimeoutOr500(wResp) \/ TimeoutOr500(eResp)) => statsResult.val = JStr(S_Failed)

\* C1 as amended: fetch_today_stats never raises, for every combination of
\* outcomes of the two requests; whenever the wellness endpoint answers with
\* HTTP 500 or times out it returns exactly "Failed to fetch data"; when the
\* wellness request succeeds and only the events endpoint answers with HTTP
\* 500 or times out, it returns the summary headed "Today: Rest".
C1_FailedOnWellnessFailure ==
    statsResult.called =>
        /\ ~statsResult.raised
        /\ TimeoutOr500(wResp) => statsResult.val = JStr(S_Failed)
        /\ (WellnessAccepted(wResp) /\ TimeoutOr500(eResp)) =>
              /\ statsResult.val.t = "str"
              /\ statsResult.val.s # S_Failed
              /\ SubSeq(statsResult.val.s, 1, Len(S_Today) + Len(S_Rest) + 1)
                    = S_Today \o S_Rest \o NL

\* fetch_today_stats has returned "Failed to fetch data" for a wellness
\* request answered with HTTP 500 while the events endpoint was fine.
C1_Witness ==
    /\ statsResult.called
    /\ wResp = Http(500, Json(Payload(FullPayload(50, 30))))
    /\ eResp = Http(200, Json(JArr(<<Named(JStr(N_Run))>>)))
    /\ statsResult.val = JStr(S_Failed)

\* The events response is a success: a 2xx status and a JSON array that is
\* empty or starts with an object.
In2xx(status) == 200 <= status /\ status <= 299
EventsSuccess(resp) ==
    /\ resp.kind = "http"
    /\ In2xx(resp.status)
    /\ resp.body.valid
    /\ resp.body.val.t = "arr"
    /\ (resp.body.val.a # <<>> => resp.body.val.a[1].t = "obj")

\* C2: for every successful events response, fetch_today_activity returns
\* the name of the first element when it is present and not empty, and
\* "Rest" in every other case: an empty array, a first element without a
\* name, a first element whose name is empty. (Names that are strs.)
C2_NameOrRest ==
    (actResult.called /\ EventsSuccess(eResp)) =>
        LET a == eResp.body.val.a IN
        IF a = <<>> \/ K_name \notin DOMAIN a[1].o THEN actResult.val = JStr(S_Rest)
        ELSE IF a[1].o[K_name].t # "str" THEN TRUE
        ELSE IF a[1].o[K_name].s # <<>> THEN actResult.val = a[1].o[K_name]
        ELSE actResult.val = JStr(S_Rest)

\* The lines of a text: what text.split("\n") gives. Break(k) is the place
\* of the k-th line break, the ends of the text counting as breaks.
Lines(text) ==
    LET breaks == {p \in 1..Len(text) : text[p] = "\n"}
        Break(k) == IF k = 0 THEN 0
                    ELSE IF k > Cardinality(breaks) THEN Len(text) + 1
                    ELSE CHOOSE p \in breaks : Cardinality({q \in breaks : q < p}) = k - 1
    IN  [k \in 1..(Cardinality(breaks) + 1) |-> SubSeq(text, Break(k - 1) + 1, Break(k) - 1)]

StartsWith(text, prefix) ==
    Len(text) >= Len(prefix) /\ SubSeq(text, 1, Len(prefix)) = prefix

\* The labels of the summary, in the order the specification fixes.
Labels ==
    <<<<"C", "T", "L", ":", " ">>, <<"A", "T", "L", ":", " ">>, <<"F", "o", "r", "m", ":", " ">>, <<"R", "a", "m", "p", " ", "R", "a", "t", "e", ":", " ">>,
      <<"R", "e", "s", "t", "i", "n", "g", " ", "H", "R", ":", " ">>, <<"H", "R", "V", ":", " ">>, <<"S", "l", "e", "e", "p", " ", "S", "c", "o", "r", "e", ":", " ">>,
      <<"S", "t", "e", "p", "s", ":", " ">>>>

\* `text` is exactly 8 lines, the k-th made of the k-th label and a value.
EightLabelledLines(text) ==
    LET L == Lines(text) IN
    /\ Len(L) = 8
    /\ \A k \in 1..8 : StartsWith(L[k], Labels[k]) /\ Len(L[k]) > Len(Labels[k])

\* A stats summary was rendered: fetch_today_stats returned something other
\* than the failure string.
SummaryRendered ==
    statsResult.called /\ ~statsResult.raised /\ statsResult.val # JStr(S_Failed)

\* C8: every summary fetch_today_stats renders is the header
\* "Today: <activity>", an empty line, and then exactly 8 labelled lines in
\* the order CTL, ATL, Form, Ramp Rate, Resting HR, HRV, Sleep Score, Steps,
\* for every wellness payload and every activity name.
C8_SummaryLayout ==
    SummaryRendered =>
        LET text == statsResult.val.s IN
        /\ StartsWith(text, S_Today)
        /\ \E k \in Len(S_Today) + 1 .. Len(text) - 1 :
              /\ text[k] = "\n"
              /\ text[k + 1] = "\n"
              /\ EightLabelledLines(SubSeq(text, k + 2, Len(text)))

\* A summary rendered for an activity name of two lines and a payload with
\* a fractional ramp rate.
C8_Witness ==
    /\ SummaryRendered
    /\ eResp = Http(200, Json(JArr(<<Named(JStr(N_TwoLines))>>)))
    /\ wResp = Http(200, Json(Payload((K_rampRate :> JFloat(TRUE, 2875)) @@ FullPayload(50, 30))))
    /\ StartsWith(statsResult.val.s, S_Today \o N_TwoLines \o NL \o NL \o <<"C", "T", "L", ":", " ", "5", "0">>)

\* The wellness response is a success with a payload all of whose present
\* metrics are ints.
IntegerPayload(resp) ==
    /\ resp.kind = "http"
    /\ In2xx(resp.status)
    /\ resp.body.valid
    /\ resp.body.val.t = "obj"
    /\ \A k \in DOMAIN resp.body.val.o : resp.body.val.o[k].t = "int"

\* The int a metric is to be rendered as: its value, 0 when it is absent.
MetricOrZero(payload, k) == IF k \notin DOMAIN payload.o THEN JInt(0) ELSE payload.o[k]

\* ctl minus atl of a payload.
LoadDifference(payload) ==
    IntAdd(MetricOrZero(payload, K_ctl), IntNeg(MetricOrZero(payload, K_atl)))

\* The k-th of the 8 labelled lines when it shows the int v in decimal.
MetricLine(k, v) ==
    Labels[k] \o (IF v.mag = <<>> THEN <<"0">>
                  ELSE (IF v.neg THEN <<"-">> ELSE <<>>) \o DigitChars(ToDigits(v.mag)))

\* The lines L show the metrics of payload d, 0 for an absent one, and as
\* Form ctl minus atl.
MetricsShown(d, L) ==
    /\ L[1] = MetricLine(1, MetricOrZero(d, K_ctl))
    /\ L[2] = MetricLine(2, MetricOrZero(d, K_atl))
    /\ L[3] = MetricLine(3, LoadDifference(d))
    /\ L[4] = MetricLine(4, MetricOrZero(d, K_rampRate))
    /\ L[5] = MetricLine(5, MetricOrZero(d, K_restingHR))
    /\ L[6] = MetricLine(6, MetricOrZero(d, K_hrv))
    /\ L[7] = MetricLine(7, MetricOrZero(d, K_sleepScore))
    /\ L[8] = MetricLine(8, MetricOrZero(d, K_steps))

\* The last 8 lines of a summary.
LastEight(text) == LET L == Lines(text) IN SubSeq(L, Len(L) - 7, Len(L))

\* C9 as stated: for every wellness payload with integer-valued fields, each of ctl,
\* atl, rampRate, restingHR, hrv, sleepScore, steps that is absent is
\* rendered as 0, a present one as its value, and the Form rendered is ctl
\* minus atl.
C9_AbsentIsZeroFormIsDifference ==
    (statsResult.called /\ IntegerPayload(wResp)) =>
        /\ SummaryRendered
        /\ MetricsShown(wResp.body.val, LastEight(statsResult.val.s))

\* C9 as amended: for every wellness payload with integer-valued fields
\* whose ctl minus atl has at most 4300 decimal digits, each of ctl,
\* atl, rampRate, restingHR, hrv, sleepScore, steps that is absent is
\* rendered as 0, a present one as its value, and the Form rendered is ctl
\* minus atl; when ctl minus atl has more than 4300 digits the call returns
\* "Failed to fetch data".
C9_AbsentIsZeroFormIsDifferenceUpTo4300Digits ==
    (statsResult.called /\ IntegerPayload(wResp)) =>
        IF NumDigits(LoadDifference(wResp.body.val).mag) > 4300
        THEN statsResult = Called(Ret(JStr(S_Failed)))
        ELSE /\ SummaryRendered
             /\ MetricsShown(wResp.body.val, LastEight(statsResult.val.s))

\* The summary of a payload with ctl = 50, atl = 30 and no steps shows
\* "Form: 20" and "Steps: 0".
C9_Witness ==
    /\ statsResult.called
    /\ wResp = Http(200, Json(Payload(Restrict(FullPayload(50, 30), MetricKeys \ {K_steps}))))
    /\ LastEight(statsResult.val.s)[3] = <<"F", "o", "r", "m", ":", " ", "2", "0">>
    /\ LastEight(statsResult.val.s)[8] = <<"S", "t", "e", "p", "s", ":", " ", "0">>

\* The events payload is malformed: not JSON, not an array, or an array
\* whose first element is not an object.
MalformedEvents(resp) ==
    /\ resp.kind = "http"
    /\ \/ ~resp.body.valid
       \/ resp.body.val.t # "arr"
       \/ (resp.body.val.a # <<>> /\ resp.body.val.a[1].t # "obj")

TransportFailure(resp) == resp.kind \in {"timeout", "conn_error"}

\* C10: fetch_today_activity never raises, and returns exactly
\* "Rest" when the events request ends in a transport error, a timeout, a
\* non-2xx status or a malformed payload.
C10_RestOnNon2xx ==
    actResult.called =>
        /\ ~actResult.raised
        /\ ( \/ TransportFailure(eResp)
             \/ (eResp.kind = "http" /\ ~In2xx(eResp.status))
             \/ MalformedEvents(eResp) ) => actResult.val = JStr(S_Rest)

----------------------------------------------------------------------------
(* Claims about the running application (checked under Spec and FairSpec) *)

\* The URL is one of the given athlete.
UrlOfAthlete(url, athlete_id) ==
    StartsWith(url, <<"h", "t", "t", "p", "s", ":", "/", "/", "i", "n", "t", "e", "r", "v", "a", "l", "s", ".", "i", "c", "u", "/", "a", "p", "i", "/", "v", "1", "/", "a", "t", "h", "l", "e", "t", "e", "/">> \o athlete_id \o <<"/">>)

\* Thread t comes to the program point `kind` in this step.
Sends(t, kind) == fetch[t].pc # kind /\ fetch'[t].pc = kind

\* Thread t builds the URL of a request in this step.
BuildsWellnessUrl(t) == Sends(t, "wellness_auth")
BuildsEventsUrl(t) == Sends(t, "events_auth")

\* C4: every request a fetch issues, the wellness request and the events
\* request, is built from the athlete identifier the client holds at that
\* time, also after a settings save that changed it.
C4_RequestsUseCurrentAthlete ==
    [][\A t \in Threads :
          (BuildsWellnessUrl(t) \/ BuildsEventsUrl(t)) =>
              UrlOfAthlete(fetch'[t].req.url, client'.athlete_id)]_vars

\* C5: the UI thread never waits on an HTTP request: a fetch started by
\* show_stats runs on a task of its own.
C5_UiThreadNeverWaitsOnHttp ==
    ~(uiPc = "show_stats" /\ fetch["ui"].pc \in {"wellness_wait", "events_wait"})

\* The refresh thread has just published a result and starts its sleep.
JustPublished == schedPc = "sleep" /\ sleepLeft = REFRESH_INTERVAL

\* The fetch_today_stats of the refresh thread has returned the failure string.
SchedFetchFailed ==
    /\ schedPc = "fetching"
    /\ fetch["sched"].pc = "done"
    /\ fetch["sched"].result.val = JStr(S_Failed)

\* The refresh thread has called fetch_today_stats anew.
SchedFetchStarted == schedPc = "fetching" /\ fetch["sched"].pc = "wellness_auth"

\* The user chose Exit: the process has ended.
Exited == uiPc = "exited"

\* C6: failed fetches never end the refresh loop: for as long as the
\* process runs, after a fetch that failed (however many failed before it)
\* the refresh thread performs another fetch_today_stats, and every fetch it
\* performs is followed by a publish.
C6_SchedulerSurvivesFailures ==
    /\ SchedFetchFailed ~> (SchedFetchStarted \/ Exited)
    /\ SchedFetchStarted ~> (JustPublished \/ Exited)
    /\ []<>(JustPublished \/ Exited)

\* A failure was published as the tooltip and the next fetch of the refresh
\* thread has failed too.
C6_Witness ==
    /\ tooltip = S_Failed
    /\ SchedFetchFailed

\* The last settings save has returned and its file write had failed.
FailedSaveDone ==
    /\ lastWrite = "failed"
    /\ uiPc \in {"idle", "show_stats"}

\* The client holds the values the user entered in the settings window.
EnteredKept ==
    /\ client.username = fields.username
    /\ client.password = fields.password
    /\ client.athlete_id = fields.athlete_id

\* Thread t builds a request from the entered values in this step: the
\* URL is one of the entered athlete and the user name is the entered one.
BuildsFromEntered(t) ==
    /\ UrlOfAthlete(fetch'[t].req.url, fields.athlete_id)
    /\ fetch'[t].req.auth[1] = fields.username

\* C11: a settings save whose file write fails raises nothing and leaves
\* the client holding the values the user entered, and the fetches that
\* follow in the session use those values: their URLs are of the entered
\* athlete and they authenticate with the entered user name and password.
C11_FailedSaveKeepsEntered ==
    [][FailedSaveDone =>
          /\ EnteredKept
          /\ \A t \in Threads :
                /\ (BuildsWellnessUrl(t) \/ BuildsEventsUrl(t)) => BuildsFromEntered(t)
                /\ (Sends(t, "wellness_wait") \/ Sends(t, "events_wait")) =>
                       fetch'[t].req.auth[2] = fields.password]_vars

\* The save itself: once a save with a failed write has returned, the
\* client holds the entered values.
FailedSaveKeepsClient == FailedSaveDone => EnteredKept

\* The requests after such a save, leaving out the athlete of the wellness
\* URL: the user name, the password and the athlete of the events URL are
\* the entered ones.
FailedSaveAuthUsed ==
    [][FailedSaveDone =>
          \A t \in Threads :
             /\ (BuildsWellnessUrl(t) \/ BuildsEventsUrl(t)) =>
                    fetch'[t].req.auth[1] = fields.username
             /\ BuildsEventsUrl(t) => UrlOfAthlete(fetch'[t].req.url, fields.athlete_id)
             /\ (Sends(t, "wellness_wait") \/ Sends(t, "events_wait")) =>
                    fetch'[t].req.auth[2] = fields.password]_vars

\* The refresh thread is inside fetch_today_stats.
SchedInFlight == fetch["sched"].pc # "none"

\* C12: the ticks of the refresh thread are sequential: it has a fetch in
\* flight only while it is in its fetching step; a tick starts only from
\* the head of the loop with no fetch in flight; the loop comes round only
\* from a sleep that has run out; the sleep starts only with the
\* publication of a returned fetch and lasts REFRESH_INTERVAL seconds,
\* which only the passing of time shortens.
C12_TicksSequential ==
    [][/\ SchedInFlight => schedPc = "fetching"
       /\ (schedPc # "fetching" /\ schedPc' = "fetching") =>
              schedPc = "loop" /\ ~SchedInFlight /\ sleepLeft = 0
       /\ (schedPc # "loop" /\ schedPc' = "loop") => schedPc = "sleep" /\ sleepLeft = 0
       /\ (schedPc # "sleep" /\ schedPc' = "sleep") =>
              /\ schedPc = "fetching" /\ fetch["sched"].pc = "done"
              /\ ~SchedInFlight'
              /\ tooltip' = ReplaceNewlines(fetch["sched"].result.val.s)
              /\ sleepLeft' = REFRESH_INTERVAL
       /\ sleepLeft' # sleepLeft =>
              \/ schedPc' = "sleep" /\ schedPc = "fetching"
              \/ schedPc = "sleep" /\ schedPc' = "sleep" /\ sleepLeft' < sleepLeft
                    /\ sleepLeft - sleepLeft' <= TimeStep]_vars

\* A second tick is under way: something was published, the sleep ran
\* out and the refresh thread waits for a response again.
C12_Witness ==
    /\ tooltip # S_Intervals
    /\ schedPc = "fetching"
    /\ fetch["sched"].pc = "wellness_wait"
    /\ sleepLeft = 0

\* The refresh thread publishes in this step.
Publishes == schedPc = "fetching" /\ schedPc' = "sleep"

\* What fetch_today_stats returned to the refresh thread.
SchedResult == fetch["sched"].result.val.s

\* C13 as stated: on every tick the tooltip becomes exactly the string
\* fetch_today_stats returned on that tick, unmodified, whatever it held.
C13_TooltipIsResult ==
    [][Publishes => tooltip' = SchedResult]_vars

\* `shown` is `text` with one space put in front of every line but the first.
IndentedAfterFirst(shown, text) ==
    LET S == Lines(shown)
        T == Lines(text)
    IN  /\ Len(S) = Len(T)
        /\ S[1] = T[1]
        /\ \A k \in 2..Len(T) : S[k] = <<" ">> \o T[k]

\* C13, amended: on every tick the tooltip becomes the string
\* fetch_today_stats returned on that tick with a space after each of its
\* line breaks, whatever it held before; a result of one line ("Failed to
\* fetch data") is published unmodified.
C13_TooltipIsResultIndented ==
    [][Publishes =>
          /\ IndentedAfterFirst(tooltip', SchedResult)
          /\ Len(Lines(SchedResult)) = 1 => tooltip' = SchedResult]_vars

\* A summary of ten lines is published while the tooltip shows the failure
\* string of the tick before.
C13_Witness ==
    /\ schedPc = "fetching"
    /\ fetch["sched"].pc = "done"
    /\ Len(Lines(SchedResult)) = 10
    /\ tooltip = S_Failed

\* The requests of one call so far: none yet, the wellness request, or the
\* wellness request and then the events request; and none is missing once
\* the call waits or has returned.
OneAttempt(f) ==
    /\ f.sent \in {<<>>, <<"wellness">>, <<"wellness", "events">>}
    /\ f.pc \in {"wellness_wait", "events_auth", "done"} => Len(f.sent) >= 1
    /\ f.pc = "events_wait" => Len(f.sent) = 2
    /\ Len(f.got) <= Len(f.sent)

\* The call has gone on to the events request.
WentOnToEvents(f) == f.pc = "events_auth" \/ Len(f.sent) = 2

\* The call has returned after a wellness request that failed.
ReturnedOnWellnessFailure(f) == f.pc = "done" /\ f.result.val = JStr(S_Failed)

\* C14: a call of fetch_today_stats makes one wellness request
\* and at most one events request, the latter only after a wellness
\* response with a success (2xx) status that was parsed into stats, and
\* none after a failed wellness request.
C14_EventsOnlyAfter2xx ==
    \A t \in Threads :
       LET f == fetch[t] IN
       /\ OneAttempt(f)
       /\ WentOnToEvents(f) =>
              /\ f.got[1].kind = "http" /\ In2xx(f.got[1].status) /\ f.got[1].json
              /\ f.stats # <<>>
       /\ ReturnedOnWellnessFailure(f) => f.sent = <<"wellness">>

\* The credentials the client holds.
Credentials == <<client.username, client.password, client.athlete_id>>

\* This step is one of the three assignments of on_save.
OnSaveStep ==
    \/ uiPc = "idle" /\ settingsShown /\ uiPc' = "on_save_password"
    \/ uiPc = "on_save_password" /\ uiPc' = "on_save_athlete"
    \/ uiPc = "on_save_athlete" /\ uiPc' = "on_save_open"

\* What load_settings gives for the settings file.
LoadedCredentials ==
    LET st == load_settings(file)
    IN  <<st.username.s, st.password.s, st.athlete_id.s>>

\* C15: the credentials of the client change only in the save action of
\* the settings window: until Save is pressed they are the ones loaded at
\* startup, and no step of a fetch, of the refresh thread or of opening or
\* closing a window changes them.
C15_CredentialsChangeOnlyInSave ==
    [][/\ saves = 0 => Credentials = LoadedCredentials
       /\ Credentials' # Credentials => OnSaveStep]_vars

\* Nothing was saved, the refresh thread has published a failure, the
\* stats window shows a summary and the settings window is open.
C15_Witness ==
    /\ saves = 0
    /\ tooltip = S_Failed
    /\ statsWindow.shown /\ statsWindow.label # S_Failed
    /\ settingsShown
    /\ Credentials = LoadedCredentials

\* Thread t has a request on its way.
RequestOut(t) == fetch[t].pc \in {"wellness_wait", "events_wait"}

\* C16: every request is sent with a (username, password) pair that was
\* the whole of the stored credentials at some moment, the pair loaded at
\* startup or a pair entered in a save, never the user name of one pair
\* with the password of another, also when a save runs beside a fetch of
\* the refresh thread.
C16_AuthPairNeverMixed ==
    \A t \in Threads :
       RequestOut(t) => <<fetch[t].req.auth[1], fetch[t].req.auth[2]>> \in credPairs

\* Nothing was published yet: the tooltip is the one of TrayApp.__init__
\* (no result of fetch_today_stats is "Intervals").
NothingPublished == tooltip = S_Intervals

\* C17: the refresh thread makes its first fetch and publishes the result
\* before it waits: as long as nothing was published it is at the head of
\* its loop or fetching and no sleep is pending, and a sleep begins only in
\* a step that publishes the result of a returned fetch.
C17_FirstFetchBeforeAnyWait ==
    [][/\ NothingPublished => schedPc \in {"loop", "fetching"} /\ sleepLeft = 0
       /\ (schedPc # "sleep" /\ schedPc' = "sleep") =>
              /\ fetch["sched"].pc = "done"
              /\ ~NothingPublished'
              /\ sleepLeft = 0 /\ sleepLeft' = REFRESH_INTERVAL]_vars

\* The first fetch of the refresh thread has returned and nothing was
\* published or waited for yet.
C17_Witness ==
    /\ NothingPublished
    /\ schedPc = "fetching"
    /\ fetch["sched"].pc = "done"
    /\ sleepLeft = 0

====
